---- MODULE Spec2Model ----
(***************************************************************************)
(* A model of the invoice generator's totals engine, band-slicing          *)
(* pagination and PDF export pipeline.                                      *)
(*                                                                         *)
(* Numbers.  A JavaScript number is a record [k, v]: k = "fin" with v the  *)
(* value counted in hundredths (fixed point, exact for the integer inputs  *)
(* used here: every product and every percentage of the totals engine is   *)
(* a whole number of hundredths), k = "inf" with v the sign, or k = "nan". *)
(* Floating-point rounding is not modelled.                                *)
(*                                                                         *)
(* Strings.  A string is a sequence of one-character strings over the      *)
(* alphabet digits, "-", "+", " ", "a" and the letters of "Infinity"; the  *)
(* two numeric conversions below are exact on that alphabet.               *)
(***************************************************************************)
EXTENDS Integers, Sequences, FiniteSets, TLC

VARIABLES
    invoice,        \* the invoice snapshot held by the editor (items, fee configuration)
    renderHeight,   \* band slicing: height of the rasterized image scaled to the page width
    pageHeight,     \* band slicing: height of one PDF page
    position,       \* band slicing: the loop's cumulative offset
    page,           \* band slicing: the loop's page counter
    pdfPages,       \* band slicing: per PDF page, the y offsets at which the image was drawn
    slicePc,        \* band slicing: "loop" or "saved"
    invoices,       \* store.invoices, newest first: records [id, rev, folderId, updatedAt]
                    \* (rev: the revision of the invoice's data)
    activeInvoiceId,\* store.activeInvoiceId
    nextId,         \* the next fresh invoice id (nanoid)
    folders,        \* store.folders: the folder ids, in creation order
    nextFolderId,   \* the next fresh folder id (nanoid)
    selectedFolderId, \* the library page's selectedFolderId: "all", "unfiled" or a folder
    settings,       \* store.settings: uiTheme
    now,            \* the wall clock read by new Date()
    exportState,    \* the page's ExportState: isExporting, status, error
    impl,           \* which exportInvoiceToPdf runs: "fallback" (server, then client) or "single"
    pc,             \* the await the export call is suspended at, or "idle"
    snapshot,       \* the invoice data passed to the export call
    server,         \* how the server attempt (generatePdf) went
    download,       \* how downloadPdf's browser download went
    client,         \* how the client attempt (html2canvas + jsPDF) went
    captured,       \* what the export element showed when html2canvas was called
    result,         \* how the exportInvoiceToPdf promise settled
    files,          \* the PDF files this call handed to the user
    statuses,       \* the statuses this call passed to onProgress, in order
    labels,         \* invoice.labels as stored: label key -> text
    fields,         \* the invoice's optional text fields (meta, notes, terms): key -> text
    style,          \* invoice.style: headerColor, backgroundColor, useCustomColors
    preferences,    \* invoice.preferences: currency, template, invoiceTheme
    request,        \* PDF endpoint: the POST being handled
    handler,        \* PDF endpoint: the await onRequestPost is suspended at, or "idle" / "responded"
    browser,        \* PDF endpoint: the browser session of this request: "none", "open", "closed"
    leaked,         \* PDF endpoint: sessions of earlier requests that were never closed
    response        \* PDF endpoint: the Response returned for this request

totalsVars == <<invoice>>
formVars == <<labels, fields, style, preferences>>
sliceVars == <<renderHeight, pageHeight, position, page, pdfPages, slicePc>>
libraryVars == <<folders, nextFolderId, selectedFolderId, settings, now>>
storeVars == <<invoices, activeInvoiceId, nextId, libraryVars>>
callVars == <<impl, pc, snapshot, server, download, client, captured, result, files, statuses>>
exportVars == <<exportState, callVars>>
endpointVars == <<request, handler, browser, leaked, response>>

vars == <<totalsVars, formVars, sliceVars, storeVars, exportVars, endpointVars>>

----------------------------------------------------------------------------
(* JavaScript numbers *)

Fin(n) == [k |-> "fin", v |-> n]
NaN == [k |-> "nan", v |-> 0]
Inf(sign) == [k |-> "inf", v |-> sign]

IsFinite(x) == x.k = "fin"

Sign(n) == IF n < 0 THEN -1 ELSE 1

XNeg(a) ==
    CASE a.k = "fin" -> Fin(-a.v)
      [] a.k = "inf" -> Inf(-a.v)
      [] OTHER -> NaN

XAdd(a, b) ==
    CASE a.k = "nan" \/ b.k = "nan" -> NaN
      [] a.k = "inf" /\ b.k = "inf" -> IF a.v = b.v THEN a ELSE NaN
      [] a.k = "inf" -> a
      [] b.k = "inf" -> b
      [] OTHER -> Fin(a.v + b.v)

XSub(a, b) == XAdd(a, XNeg(b))

XMul(a, b) ==
    CASE a.k = "nan" \/ b.k = "nan" -> NaN
      [] a.k = "inf" /\ b.k = "inf" -> Inf(a.v * b.v)
      [] a.k = "inf" -> IF b.v = 0 THEN NaN ELSE Inf(a.v * Sign(b.v))
      [] b.k = "inf" -> IF a.v = 0 THEN NaN ELSE Inf(b.v * Sign(a.v))
      [] OTHER -> Fin((a.v * b.v) \div 100)

\* x / 100
XDiv100(a) ==
    CASE a.k = "fin" -> Fin(a.v \div 100)
      [] OTHER -> a

\* x || 0 : NaN and 0 are falsy, every other number is kept
OrZero(a) == IF a.k = "nan" THEN Fin(0) ELSE a

----------------------------------------------------------------------------
(* JavaScript string-to-number conversions *)

Digits == {"0", "1", "2", "3", "4", "5", "6", "7", "8", "9"}

DigitValue(c) ==
    CASE c = "0" -> 0 [] c = "1" -> 1 [] c = "2" -> 2 [] c = "3" -> 3
      [] c = "4" -> 4 [] c = "5" -> 5 [] c = "6" -> 6 [] c = "7" -> 7
      [] c = "8" -> 8 [] c = "9" -> 9

RECURSIVE DigitsValue(_)
DigitsValue(s) ==
    IF s = <<>> THEN 0
    ELSE 10 * DigitsValue(SubSeq(s, 1, Len(s) - 1)) + DigitValue(s[Len(s)])

AllDigits(s) == s # <<>> /\ \A i \in 1..Len(s) : s[i] \in Digits

RECURSIVE TrimLeft(_)
TrimLeft(s) ==
    IF s # <<>> /\ s[1] = " " THEN TrimLeft(Tail(s)) ELSE s

RECURSIVE TrimRight(_)
TrimRight(s) ==
    IF s # <<>> /\ s[Len(s)] = " " THEN TrimRight(SubSeq(s, 1, Len(s) - 1)) ELSE s

Trim(s) == TrimRight(TrimLeft(s))

HasSign(s) == s # <<>> /\ s[1] \in {"-", "+"}
StripSign(s) == IF HasSign(s) THEN Tail(s) ELSE s
SignOf(s) == IF s # <<>> /\ s[1] = "-" THEN -1 ELSE 1

InfinityLiteral == <<"I", "n", "f", "i", "n", "i", "t", "y">>

HasPrefix(s, p) == Len(s) >= Len(p) /\ SubSeq(s, 1, Len(p)) = p

RECURSIVE DigitPrefix(_)
DigitPrefix(s) ==
    IF s # <<>> /\ s[1] \in Digits THEN <<s[1]>> \o DigitPrefix(Tail(s)) ELSE <<>>

\* Number(value): the whole trimmed string must be a numeric literal; "" is 0
JsNumber(s) ==
    LET t == Trim(s)
        u == StripSign(t)
    IN  IF t = <<>> THEN Fin(0)
        ELSE IF AllDigits(u) THEN Fin(SignOf(t) * DigitsValue(u) * 100)
        ELSE IF u = InfinityLiteral THEN Inf(SignOf(t))
        ELSE NaN

\* parseFloat(value): the longest numeric prefix after leading white space
JsParseFloat(s) ==
    LET t == TrimLeft(s)
        u == StripSign(t)
        p == DigitPrefix(u)
    IN  IF HasPrefix(u, InfinityLiteral) THEN Inf(SignOf(t))
        ELSE IF p = <<>> THEN NaN
        ELSE Fin(SignOf(t) * DigitsValue(p) * 100)

----------------------------------------------------------------------------
(* Totals engine *)

\* parse rule that keeps a numeric prefix and non-finite values
parseAmountLenient(value) == OrZero(JsParseFloat(value))

parseAmount(value) ==
    LET number == JsNumber(value)
    IN  IF IsFinite(number) THEN number ELSE Fin(0)

RECURSIVE subtotalOf(_)
\* invoice.items.reduce((sum, item) => sum + qty * rate, 0) of getTotals
subtotalOf(items) ==
    IF items = <<>> THEN Fin(0)
    ELSE LET n == Len(items)
             qty == parseAmount(items[n].quantity)
             rate == parseAmount(items[n].rate)
         IN  XAdd(subtotalOf(SubSeq(items, 1, n - 1)), XMul(qty, rate))

RECURSIVE htmlSubtotalOf(_)
\* invoice.items.reduce((sum, item) => sum + qty * rate, 0) of calculateTotals
htmlSubtotalOf(items) ==
    IF items = <<>> THEN Fin(0)
    ELSE LET n == Len(items)
             qty == OrZero(JsParseFloat(items[n].quantity))
             rate == OrZero(JsParseFloat(items[n].rate))
         IN  XAdd(htmlSubtotalOf(SubSeq(items, 1, n - 1)), XMul(qty, rate))

XMax0(a) == IF a.k = "fin" /\ a.v < 0 THEN Fin(0) ELSE a

\* getTotals with the amount due clamped at zero
getTotalsClamped(inv) ==
    LET subtotal == subtotalOf(inv.items)
        taxBase == IF inv.totals.taxType = "percent"
                   THEN XMul(subtotal, XDiv100(parseAmount(inv.totals.taxValue)))
                   ELSE parseAmount(inv.totals.taxValue)
        discountBase == IF inv.totals.discountType = "percent"
                        THEN XMul(subtotal, XDiv100(parseAmount(inv.totals.discountValue)))
                        ELSE parseAmount(inv.totals.discountValue)
        tax == IF inv.totals.taxEnabled THEN taxBase ELSE Fin(0)
        discount == IF inv.totals.discountEnabled THEN discountBase ELSE Fin(0)
        shipping == IF inv.totals.shippingEnabled
                    THEN parseAmount(inv.totals.shippingValue) ELSE Fin(0)
        total == XSub(XAdd(XAdd(subtotal, tax), shipping), discount)
        amountPaid == parseAmount(inv.totals.amountPaid)
        amountDue == XMax0(XSub(total, amountPaid))
    IN  [subtotal |-> subtotal, tax |-> tax, discount |-> discount,
         shipping |-> shipping, total |-> total, amountPaid |-> amountPaid,
         amountDue |-> amountDue]

\* getTotals with the percentage discount taken on subtotal + tax
getTotalsCompounded(inv) ==
    LET subtotal == subtotalOf(inv.items)
        taxBase == IF inv.totals.taxType = "percent"
                   THEN XMul(subtotal, XDiv100(parseAmount(inv.totals.taxValue)))
                   ELSE parseAmount(inv.totals.taxValue)
        tax == IF inv.totals.taxEnabled THEN taxBase ELSE Fin(0)
        discountBase == IF inv.totals.discountType = "percent"
                        THEN XMul(XAdd(subtotal, tax),
                                  XDiv100(parseAmount(inv.totals.discountValue)))
                        ELSE parseAmount(inv.totals.discountValue)
        discount == IF inv.totals.discountEnabled THEN discountBase ELSE Fin(0)
        shipping == IF inv.totals.shippingEnabled
                    THEN parseAmount(inv.totals.shippingValue) ELSE Fin(0)
        total == XSub(XAdd(XAdd(subtotal, tax), shipping), discount)
        amountPaid == parseAmount(inv.totals.amountPaid)
        amountDue == XSub(total, amountPaid)
    IN  [subtotal |-> subtotal, tax |-> tax, discount |-> discount,
         shipping |-> shipping, total |-> total, amountPaid |-> amountPaid,
         amountDue |-> amountDue]

getTotals(inv) ==
    LET subtotal == subtotalOf(inv.items)
        taxBase == IF inv.totals.taxType = "percent"
                   THEN XMul(subtotal, XDiv100(parseAmount(inv.totals.taxValue)))
                   ELSE parseAmount(inv.totals.taxValue)
        discountBase == IF inv.totals.discountType = "percent"
                        THEN XMul(subtotal, XDiv100(parseAmount(inv.totals.discountValue)))
                        ELSE parseAmount(inv.totals.discountValue)
        tax == IF inv.totals.taxEnabled THEN taxBase ELSE Fin(0)
        discount == IF inv.totals.discountEnabled THEN discountBase ELSE Fin(0)
        shipping == IF inv.totals.shippingEnabled
                    THEN parseAmount(inv.totals.shippingValue) ELSE Fin(0)
        total == XSub(XAdd(XAdd(subtotal, tax), shipping), discount)
        amountPaid == parseAmount(inv.totals.amountPaid)
        amountDue == XSub(total, amountPaid)
    IN  [subtotal |-> subtotal, tax |-> tax, discount |-> discount,
         shipping |-> shipping, total |-> total, amountPaid |-> amountPaid,
         amountDue |-> amountDue]

calculateTotals(inv) ==
    LET subtotal == htmlSubtotalOf(inv.items)
        taxVal == OrZero(JsParseFloat(inv.totals.taxValue))
        tax == IF inv.totals.taxEnabled
               THEN IF inv.totals.taxType = "percent"
                    THEN XMul(subtotal, XDiv100(taxVal)) ELSE taxVal
               ELSE Fin(0)
        discountVal == OrZero(JsParseFloat(inv.totals.discountValue))
        discount == IF inv.totals.discountEnabled
                    THEN IF inv.totals.discountType = "percent"
                         THEN XMul(subtotal, XDiv100(discountVal)) ELSE discountVal
                    ELSE Fin(0)
        shipping == IF inv.totals.shippingEnabled
                    THEN OrZero(JsParseFloat(inv.totals.shippingValue)) ELSE Fin(0)
        total == XAdd(XSub(XAdd(subtotal, tax), discount), shipping)
        amountPaid == OrZero(JsParseFloat(inv.totals.amountPaid))
        amountDue == XSub(total, amountPaid)
    IN  [subtotal |-> subtotal, tax |-> tax, discount |-> discount,
         shipping |-> shipping, total |-> total, amountPaid |-> amountPaid,
         amountDue |-> amountDue]

\* the items and fee configuration of createEmptyInvoice()
createEmptyInvoice ==
    [items |-> << [quantity |-> <<"1">>, rate |-> <<>>] >>,
     totals |-> [taxEnabled |-> FALSE, taxValue |-> <<"0">>, taxType |-> "percent",
                 discountEnabled |-> FALSE, discountValue |-> <<"0">>,
                 discountType |-> "percent",
                 shippingEnabled |-> FALSE, shippingValue |-> <<"0">>,
                 amountPaid |-> <<"0">>]]

\* the totals variables of a state in which no editing is modelled
TotalsIdle == invoice = createEmptyInvoice

\* the label keys that are modelled (a sample of the 25 keys of InvoiceLabels)
LabelKeys == {"billTo", "issueDate", "notes", "total"}

defaultLabels ==
    [key \in LabelKeys |->
        CASE key = "billTo" -> "Bill To"
          [] key = "issueDate" -> "Date"
          [] key = "notes" -> "Notes"
          [] key = "total" -> "Total"]

\* the optional text fields that are modelled: sender name and email, client name and
\* attention-to, the five meta values, and the notes
FromKeys == {"fromName", "fromEmail"}
ClientKeys == {"clientName", "attnTo"}
MetaKeys == {"issueDate", "paymentTerms", "dueDate", "poNumber", "paymentDate"}
FieldKeys == FromKeys \cup ClientKeys \cup MetaKeys \cup {"notes"}

\* labels, optional fields, style and preferences of createEmptyInvoice()
FormIdle ==
    /\ labels = defaultLabels
    /\ fields = [key \in FieldKeys |-> <<>>]
    /\ style = [headerColor |-> <<"#", "0", "6", "B", "6", "D", "4">>,
                backgroundColor |-> <<"#", "F", "F", "F", "F", "F", "F">>,
                useCustomColors |-> FALSE]
    /\ preferences = [currency |-> <<"U", "S", "D">>, template |-> "modern", invoiceTheme |-> "light",
                     useCustomTheme |-> FALSE]

----------------------------------------------------------------------------
(* Invoice store and the export call's bookkeeping: initial values *)

\* createInitialStore(): one fresh invoice, which is the active one
null == 0

\* the StoredInvoice made from createEmptyInvoice()
storedInvoice(id, folderId, timestamp) ==
    [id |-> id, rev |-> 0, folderId |-> folderId, updatedAt |-> timestamp]

\* the library page's folder filter
AllFolders == [kind |-> "all", id |-> null]
Unfiled == [kind |-> "unfiled", id |-> null]
Folder(id) == [kind |-> "folder", id |-> id]

StoreInitial ==
    /\ invoices = << storedInvoice(1, null, 0) >>
    /\ activeInvoiceId = 1
    /\ nextId = 2
    /\ folders = <<>>
    /\ nextFolderId = 1
    /\ selectedFolderId = AllFolders
    /\ settings = [uiTheme |-> "light"]
    /\ now = 0

NoContent == [id |-> 0, rev |-> 0, folderId |-> null, updatedAt |-> 0]
NoResult == [kind |-> "none", success |-> FALSE, method |-> "none", error |-> "none"]

\* useState<ExportState>({ isExporting: false, status: "", error: null }), no call made
ExportIdle ==
    /\ exportState = [isExporting |-> FALSE, status |-> "", error |-> "null"]
    /\ impl = "none"
    /\ pc = "idle"
    /\ snapshot = NoContent
    /\ server = "none"
    /\ download = "none"
    /\ client = "none"
    /\ captured = NoContent
    /\ result = NoResult
    /\ files = <<>>
    /\ statuses = <<>>

NoRequest == [body |-> "none", html |-> "undefined", filename |-> "undefined"]
NoResponse ==
    [status |-> 0, contentType |-> "none", disposition |-> "none",
     body |-> [kind |-> "none", error |-> "none", details |-> "none", of |-> "none"]]

\* the PDF endpoint before any request
EndpointIdle ==
    /\ request = NoRequest
    /\ handler = "idle"
    /\ browser = "none"
    /\ leaked = 0
    /\ response = NoResponse

----------------------------------------------------------------------------
(* Band slicing: the pagination loop of generatePdfClientSide and of the   *)
(* route's exportToPdf.  Lengths are whole rows; the image's row r is at   *)
(* page coordinate y + r when the image is drawn at offset y, and a page   *)
(* shows the page coordinates 0 .. pageHeight - 1.                         *)

MaxRenderHeight == 12
MaxPageHeight == 4

\* new jsPDF(...): the document starts with one empty page
NewPdf == << {} >>

\* the slicing variables of a state in which no slicing is modelled
SliceIdle ==
    /\ renderHeight = 0
    /\ pageHeight = 1
    /\ position = 0
    /\ page = 0
    /\ pdfPages = NewPdf
    /\ slicePc = "saved"

InitSlice ==
    /\ renderHeight \in 0..MaxRenderHeight
    /\ pageHeight \in 1..MaxPageHeight
    /\ position = 0
    /\ page = 0
    /\ pdfPages = NewPdf
    /\ slicePc = "loop"
    /\ TotalsIdle
    /\ FormIdle
    /\ EndpointIdle
    /\ StoreInitial
    /\ ExportIdle

\* pdf.addPage()
addPage(pdf) == Append(pdf, {})

\* pdf.addImage(imgData, "PNG", 0, y, renderWidth, renderHeight) on the last page
addImage(pdf, y) == [pdf EXCEPT ![Len(pdf)] = @ \cup {y}]

\* a loop condition that leaves the last, partial band out
loopConditionWholeBands == position + pageHeight <= renderHeight

\* while (position < renderHeight)
loopCondition == position < renderHeight

\* one iteration of the loop body
SliceBand ==
    /\ slicePc = "loop"
    /\ loopCondition
    /\ pdfPages' = addImage(IF page > 0 THEN addPage(pdfPages) ELSE pdfPages, -position)
    /\ position' = position + pageHeight
    /\ page' = page + 1
    /\ UNCHANGED <<renderHeight, pageHeight, slicePc, totalsVars, endpointVars, formVars, storeVars, exportVars>>

\* the loop condition fails: pdf.save(filename)
SliceSave ==
    /\ slicePc = "loop"
    /\ ~loopCondition
    /\ slicePc' = "saved"
    /\ UNCHANGED <<renderHeight, pageHeight, position, page, pdfPages, totalsVars, endpointVars, formVars, storeVars, exportVars>>

NextSlice ==
    \/ SliceBand
    \/ SliceSave

SpecSlice == InitSlice /\ [][NextSlice]_vars

----------------------------------------------------------------------------
(* Totals specification: the editor's handlers acting on one invoice *)

MaxItems == 2

QuantityInputs == {<<"2">>, <<"1", "2", "a">>}
RateInputs == {<<"5", "0">>, InfinityLiteral}
TaxInputs == {<<"0">>, <<"1", "0">>}
DiscountInputs == {<<"0">>, <<"2", "0">>}
ShippingInputs == {<<"0">>, <<"5">>}
AmountPaidInputs == {<<"0">>, <<"1", "3", "0">>}
FeeTypes == {"percent", "flat"}

\* const totals = getTotals(invoice): what the preview renders for the snapshot
previewTotals == getTotals(invoice)

\* const totals = calculateTotals(invoice): what the generated HTML shows for it
htmlTotals == calculateTotals(invoice)

\* updateInvoice(updater): the store takes the updater's result as the new snapshot
EditInvoice(updated) ==
    /\ invoice' = updated
    /\ UNCHANGED <<formVars, sliceVars, storeVars, exportVars, endpointVars>>

InitTotals ==
    /\ invoice = createEmptyInvoice
    /\ FormIdle
    /\ EndpointIdle
    /\ SliceIdle
    /\ StoreInitial
    /\ ExportIdle

AddItem ==
    /\ Len(invoice.items) < MaxItems
    /\ EditInvoice([invoice EXCEPT !.items =
                            Append(@, [quantity |-> <<"1">>, rate |-> <<>>])])

RemoveItem ==
    \E i \in 1..Len(invoice.items) :
        EditInvoice([invoice EXCEPT !.items =
                        SubSeq(@, 1, i - 1) \o SubSeq(@, i + 1, Len(@))])

SetQuantity ==
    \E i \in 1..Len(invoice.items), value \in QuantityInputs :
        EditInvoice([invoice EXCEPT !.items[i].quantity = value])

SetRate ==
    \E i \in 1..Len(invoice.items), value \in RateInputs :
        EditInvoice([invoice EXCEPT !.items[i].rate = value])

SetTaxEnabled ==
    \E checked \in BOOLEAN : EditInvoice([invoice EXCEPT !.totals.taxEnabled = checked])

SetTaxValue ==
    \E value \in TaxInputs : EditInvoice([invoice EXCEPT !.totals.taxValue = value])

SetTaxType ==
    \E value \in FeeTypes : EditInvoice([invoice EXCEPT !.totals.taxType = value])

SetDiscountEnabled ==
    \E checked \in BOOLEAN :
        EditInvoice([invoice EXCEPT !.totals.discountEnabled = checked])

SetDiscountValue ==
    \E value \in DiscountInputs :
        EditInvoice([invoice EXCEPT !.totals.discountValue = value])

SetDiscountType ==
    \E value \in FeeTypes : EditInvoice([invoice EXCEPT !.totals.discountType = value])

SetShippingEnabled ==
    \E checked \in BOOLEAN :
        EditInvoice([invoice EXCEPT !.totals.shippingEnabled = checked])

SetShippingValue ==
    \E value \in ShippingInputs :
        EditInvoice([invoice EXCEPT !.totals.shippingValue = value])

SetAmountPaid ==
    \E value \in AmountPaidInputs :
        EditInvoice([invoice EXCEPT !.totals.amountPaid = value])

NextTotals ==
    \/ AddItem
    \/ RemoveItem
    \/ SetQuantity
    \/ SetRate
    \/ SetTaxEnabled
    \/ SetTaxValue
    \/ SetTaxType
    \/ SetDiscountEnabled
    \/ SetDiscountValue
    \/ SetDiscountType
    \/ SetShippingEnabled
    \/ SetShippingValue
    \/ SetAmountPaid

SpecTotals == InitTotals /\ [][NextTotals]_vars

----------------------------------------------------------------------------
(* Claims about the totals engine, checked under SpecTotals *)

\* the value, in whole units, a numeric string stands for: a plain numeral
\* stands for its value; an empty, malformed or non-finite string for 0
ParseOrZero(s) == IF AllDigits(s) THEN DigitsValue(s) ELSE 0

RECURSIVE LineAmounts(_)
LineAmounts(items) ==
    IF items = <<>> THEN 0
    ELSE ParseOrZero(Head(items).quantity) * ParseOrZero(Head(items).rate)
         + LineAmounts(Tail(items))

TotalsFields ==
    {"subtotal", "tax", "discount", "shipping", "total", "amountPaid", "amountDue"}

\* C7: the preview (getTotals) and the generated HTML (calculateTotals) show
\* the same subtotal, tax, discount, shipping, total, amountPaid and amountDue
\* for every invoice, malformed and non-finite numeric strings included.
C7_SameTotals ==
    \A p \in {previewTotals}, h \in {htmlTotals} : \A f \in TotalsFields : p[f] = h[f]

\* C8: total = subtotal + tax + shipping - discount and amountDue = total -
\* amountPaid for every fee configuration; the amount due is not clamped and is
\* negative when more was paid than the total.
C8_TotalsArithmetic ==
    \A t \in {previewTotals} :
        /\ \A f \in TotalsFields : IsFinite(t[f])
        /\ t.total.v = t.subtotal.v + t.tax.v + t.shipping.v - t.discount.v
        /\ t.amountDue.v = t.total.v - t.amountPaid.v

\* overpayment: 2 x 50 with 10% tax is 110, 130 paid, -20 due
C8_Overpaid ==
    \E t \in {previewTotals} :
        /\ t.total = Fin(11000)
        /\ t.amountPaid = Fin(13000)
        /\ t.amountDue = Fin(-2000)

\* C9: the subtotal is the sum over the items of parse(quantity) * parse(rate),
\* where an invalid, empty or non-finite string parses to 0; the empty list
\* sums to 0 and the result is always a finite number.
C9_SubtotalIsSum ==
    previewTotals.subtotal = Fin(100 * LineAmounts(invoice.items))

\* a valid line beside a line with a malformed quantity and a non-finite rate
C9_MixedItems ==
    /\ invoice.items = << [quantity |-> <<"2">>, rate |-> <<"5", "0">>],
                          [quantity |-> <<"1", "2", "a">>, rate |-> InfinityLiteral] >>
    /\ previewTotals.subtotal = Fin(10000)

\* C10: a fee is 0 when its flag is off whatever value is stored; when on, tax
\* and discount are subtotal * value / 100 for type percent (both on the
\* subtotal) and the parsed value for type flat; shipping is its parsed value.
C10_FeeRules ==
    \A t \in {previewTotals}, c \in {invoice.totals} :
        LET PercentOf(fee, value) == fee.v * 100 = t.subtotal.v * ParseOrZero(value)
            FlatOf(fee, value) == fee.v = 100 * ParseOrZero(value)
        IN  /\ IsFinite(t.tax) /\ IsFinite(t.discount) /\ IsFinite(t.shipping)
            /\ ~c.taxEnabled => t.tax.v = 0
            /\ c.taxEnabled /\ c.taxType = "percent" => PercentOf(t.tax, c.taxValue)
            /\ c.taxEnabled /\ c.taxType = "flat" => FlatOf(t.tax, c.taxValue)
            /\ ~c.discountEnabled => t.discount.v = 0
            /\ c.discountEnabled /\ c.discountType = "percent"
                   => PercentOf(t.discount, c.discountValue)
            /\ c.discountEnabled /\ c.discountType = "flat"
                   => FlatOf(t.discount, c.discountValue)
            /\ ~c.shippingEnabled => t.shipping.v = 0
            /\ c.shippingEnabled => FlatOf(t.shipping, c.shippingValue)

\* 10% tax and 20% discount both on a subtotal of 100, shipping 5
C10_BothPercent ==
    \E t \in {previewTotals}, c \in {invoice.totals} :
        /\ c.taxEnabled /\ c.taxType = "percent"
        /\ c.discountEnabled /\ c.discountType = "percent"
        /\ c.shippingEnabled
        /\ t.subtotal = Fin(10000)
        /\ t.tax = Fin(1000)
        /\ t.discount = Fin(2000)
        /\ t.shipping = Fin(500)

----------------------------------------------------------------------------
(* Claims about band slicing, checked under SpecSlice *)

CeilDiv(a, b) == (a + b - 1) \div b

\* the image rows page k of the document shows: row r is drawn at page
\* coordinate y + r, and the page shows coordinates 0 .. pageHeight - 1
RowsShown(k) ==
    {r \in 0..(renderHeight - 1) : \E y \in pdfPages[k] : y + r \in 0..(pageHeight - 1)}

\* C2: the loop emits one band per iteration at offset page * pageHeight and
\* never more than ceil(H/P) of them (so it terminates); it stops exactly when
\* the offset has reached H, having emitted ceil(H/P) bands; band k shows the
\* rows [k*P, (k+1)*P) of the image, and every row of the image is shown on
\* exactly one page.
C2_BandsTileImage ==
    /\ position = page * pageHeight
    /\ page <= CeilDiv(renderHeight, pageHeight)
    /\ slicePc = "loop" /\ page < CeilDiv(renderHeight, pageHeight) => loopCondition
    /\ slicePc = "saved" =>
          /\ page = CeilDiv(renderHeight, pageHeight)
          /\ position >= renderHeight
          /\ page > 0 => position - pageHeight < renderHeight
          /\ Len(pdfPages) = IF page = 0 THEN 1 ELSE page
          /\ \A k \in 1..page :
                RowsShown(k) = {r \in 0..(renderHeight - 1) :
                                    (k - 1) * pageHeight <= r /\ r < k * pageHeight}
          /\ \A r \in 0..(renderHeight - 1) :
                Cardinality({k \in 1..Len(pdfPages) : r \in RowsShown(k)}) = 1

\* a saved document of three pages whose last band is partial
C2_PartialLastBand ==
    /\ slicePc = "saved"
    /\ page = 3
    /\ renderHeight < 3 * pageHeight

----------------------------------------------------------------------------
(* Invoice store (useInvoiceStore).  An invoice's data is abstracted to its
   revision number: updateInvoice produces the next revision. *)

MaxIds == 3     \* invoice ids are 1..MaxIds
MaxRev == 1     \* the listed invoices carry at most MaxRev updates in total

ListedIds == {invoices[i].id : i \in 1..Len(invoices)}

RECURSIVE withoutId(_, _)
\* current.invoices.filter((invoice) => invoice.id !== targetId)
withoutId(list, targetId) ==
    IF list = <<>> THEN <<>>
    ELSE IF Head(list).id = targetId THEN withoutId(Tail(list), targetId)
         ELSE <<Head(list)>> \o withoutId(Tail(list), targetId)

\* the activeInvoice memo: the data of the invoice with the active id, or an empty invoice
activeInvoice ==
    IF \E i \in 1..Len(invoices) : invoices[i].id = activeInvoiceId
    THEN CHOOSE inv \in {invoices[i] : i \in 1..Len(invoices)} : inv.id = activeInvoiceId
    ELSE NoContent

\* <div id={exportTargetId}>{exportPreview}</div>: the hidden element renders the active invoice
exportPreview == activeInvoice

\* mutant of mapUpdated: the map touches every record
mapUpdatedAll(list, activeId, timestamp) ==
    [i \in 1..Len(list) |-> [list[i] EXCEPT !.rev = IF list[i].id = activeId THEN @ + 1 ELSE @,
                                           !.updatedAt = timestamp]]

\* current.invoices.map(..): the active record gets the updater's data and the timestamp
mapUpdated(list, activeId, timestamp) ==
    [i \in 1..Len(list) |->
        IF list[i].id # activeId THEN list[i]
        ELSE [list[i] EXCEPT !.rev = @ + 1, !.updatedAt = timestamp]]

RECURSIVE revisions(_)
\* the number of updates the listed invoices have received
revisions(list) == IF list = <<>> THEN 0 ELSE Head(list).rev + revisions(Tail(list))

updateInvoice ==
    /\ \E i \in 1..Len(invoices) : invoices[i].id = activeInvoiceId
    /\ revisions(invoices) < MaxRev
    /\ invoices' = mapUpdated(invoices, activeInvoiceId, now)
    /\ UNCHANGED <<activeInvoiceId, nextId, libraryVars, totalsVars, endpointVars, formVars, sliceVars, exportVars>>

setActiveInvoice ==
    /\ \E id \in ListedIds : activeInvoiceId' = id
    /\ UNCHANGED <<invoices, nextId, libraryVars, totalsVars, endpointVars, formVars, sliceVars, exportVars>>

\* the argument of the library page's "New invoice" button
newInvoiceFolder == IF selectedFolderId.kind = "folder" THEN selectedFolderId.id ELSE null

\* addInvoice(folderId): the editor passes none, the library page the selected folder
addInvoice ==
    /\ nextId <= MaxIds
    /\ \E folderId \in {null, newInvoiceFolder} :
          invoices' = << storedInvoice(nextId, folderId, now) >> \o invoices
    /\ activeInvoiceId' = nextId
    /\ nextId' = nextId + 1
    /\ UNCHANGED <<libraryVars, totalsVars, endpointVars, formVars, sliceVars, exportVars>>

\* mutant of afterDelete: the active id is left as it was
afterDeleteKeepActive(targetId) ==
    LET remaining == withoutId(invoices, targetId) IN
    IF remaining = <<>>
    THEN [invoices |-> << storedInvoice(nextId, null, now) >>,
          activeInvoiceId |-> activeInvoiceId, nextId |-> nextId + 1]
    ELSE [invoices |-> remaining, activeInvoiceId |-> activeInvoiceId, nextId |-> nextId]

\* the store deleteInvoice(targetId) returns: the invoices of createInitialStore() when
\* nothing remains, else the remaining invoices with the first of them active
afterDelete(targetId) ==
    LET remaining == withoutId(invoices, targetId) IN
    IF remaining = <<>>
    THEN [invoices |-> << storedInvoice(nextId, null, now) >>,
          activeInvoiceId |-> nextId, nextId |-> nextId + 1]
    ELSE [invoices |-> remaining, activeInvoiceId |-> remaining[1].id, nextId |-> nextId]

deleteInvoice ==
    /\ \E targetId \in ListedIds :
          /\ withoutId(invoices, targetId) = <<>> => nextId <= MaxIds
          /\ invoices' = afterDelete(targetId).invoices
          /\ activeInvoiceId' = afterDelete(targetId).activeInvoiceId
          /\ nextId' = afterDelete(targetId).nextId
    /\ UNCHANGED <<libraryVars, totalsVars, endpointVars, formVars, sliceVars, exportVars>>

----------------------------------------------------------------------------
(* Export pipeline.  JavaScript runs each continuation to completion, so one
   action is the code between two awaits; the pages' handlers interleave only
   at the awaits.  onProgress is the page's state setter and does not throw;
   the browser and library calls (fetch, blob, download trigger, import,
   html2canvas, jsPDF) may. *)

Implementations == {"fallback", "single"}

Returned(success, method, error) ==
    [kind |-> "returned", success |-> success, method |-> method, error |-> error]

Rejected(error) ==
    [kind |-> "rejected", success |-> FALSE, method |-> "none", error |-> error]

Exporting(status) == [isExporting |-> TRUE, status |-> status, error |-> "null"]

\* exportToPdf after the await: the result branch and the catch branch
exportToPdfSettled(res) ==
    IF res.kind = "rejected"
    THEN [isExporting |-> FALSE, status |-> "", error |-> res.error]
    ELSE IF res.success
         THEN [isExporting |-> FALSE, status |-> "PDF saved", error |-> "null"]
         ELSE [isExporting |-> FALSE, status |-> "",
               error |-> IF res.error = "undefined" THEN "Failed to generate PDF" ELSE res.error]

\* the call settles with res and the page's exportToPdf resumes
Settle(res) ==
    /\ result' = res
    /\ exportState' = exportToPdfSettled(res)
    /\ pc' = "idle"

\* mutant of serverFailed: the call gives up after the server attempt
serverFailedNoFallback(how, sofar) ==
    /\ server' = how
    /\ statuses' = sofar
    /\ client' = "none"
    /\ Settle(Returned(FALSE, "server", how))

\* downloadPdf returned a failure: exportInvoiceToPdf falls back to generatePdfClientSide,
\* which suspends at its dynamic import
serverFailed(how, sofar) ==
    /\ server' = how
    /\ statuses' = Append(sofar, "Falling back to client-side generation...")
    /\ exportState' = Exporting("Falling back to client-side generation...")
    /\ client' = "importing"
    /\ result' = NoResult
    /\ pc' = "importing"

\* exportToPdf(invoice, elementId, setExportState) up to the first await of the call
StartExport(data) ==
    /\ pc = "idle"
    /\ ~exportState.isExporting
    /\ snapshot' = data
    /\ download' = "none"
    /\ captured' = NoContent
    /\ files' = <<>>
    /\ \E which \in Implementations :
          /\ impl' = which
          /\ IF which = "fallback"
             THEN \E htmlThrows \in BOOLEAN :
                    IF htmlThrows
                    THEN serverFailed("html_error",
                                      <<"Generating PDF via server...", "Generating PDF...">>)
                    ELSE /\ server' = "pending"
                         /\ statuses' = <<"Generating PDF via server...", "Generating PDF...">>
                         /\ exportState' = Exporting("Generating PDF...")
                         /\ client' = "none"
                         /\ result' = NoResult
                         /\ pc' = "fetching"
             ELSE /\ server' = "none"
                  /\ statuses' = <<"Rendering invoice...">>
                  /\ exportState' = Exporting("Rendering invoice...")
                  /\ client' = "importing"
                  /\ result' = NoResult
                  /\ pc' = "importing"

\* the export button of the preview and editor pages
PreviewExport ==
    /\ StartExport(activeInvoice)
    /\ UNCHANGED <<storeVars, totalsVars, endpointVars, formVars, sliceVars>>

\* the export button of a library row: setActiveInvoice(invoice.id), then exportToPdf(invoice.data)
LibraryExport ==
    /\ \E i \in 1..Len(invoices) :
          /\ activeInvoiceId' = invoices[i].id
          /\ StartExport(invoices[i])
    /\ UNCHANGED <<invoices, nextId, libraryVars, totalsVars, endpointVars, formVars, sliceVars>>

\* fetch("/api/generate-pdf") rejects: generatePdf's catch, then the fallback
FetchRejects ==
    /\ pc = "fetching"
    /\ serverFailed("network_error", statuses)
    /\ UNCHANGED <<impl, snapshot, download, captured, files, storeVars, totalsVars, endpointVars, formVars, sliceVars>>

\* the response is not ok: generatePdf throws into its own catch, then the fallback
FetchNotOk ==
    /\ pc = "fetching"
    /\ serverFailed("http_error", statuses)
    /\ UNCHANGED <<impl, snapshot, download, captured, files, storeVars, totalsVars, endpointVars, formVars, sliceVars>>

\* the response is ok but reading its body rejects: generatePdf's catch, then the fallback
BlobRejects ==
    /\ pc = "fetching"
    /\ serverFailed("blob_error", statuses)
    /\ UNCHANGED <<impl, snapshot, download, captured, files, storeVars, totalsVars, endpointVars, formVars, sliceVars>>

\* the response is ok and its body is read: downloadPdf triggers the browser download,
\* outside any try block
FetchOk ==
    /\ pc = "fetching"
    /\ server' = "ok"
    /\ statuses' = Append(statuses, "PDF generated successfully")
    /\ \E triggerThrows \in BOOLEAN :
          IF triggerThrows
          THEN /\ download' = "thrown"
               /\ files' = files
               /\ Settle(Rejected("download failed"))
          ELSE /\ download' = "done"
               /\ files' = Append(files, [via |-> "server", shows |-> snapshot])
               /\ Settle(Returned(TRUE, "server", "undefined"))
    /\ UNCHANGED <<impl, snapshot, client, captured, storeVars, totalsVars, endpointVars, formVars, sliceVars>>

\* the method field of the client attempt's result
clientMethod == IF impl = "fallback" THEN "client" ELSE "undefined"

\* import("html2canvas") or import("jspdf") rejects: the client attempt's catch
ImportRejects ==
    /\ pc = "importing"
    /\ client' = "import_error"
    /\ Settle(Returned(FALSE, clientMethod, "import failed"))
    /\ UNCHANGED <<impl, snapshot, server, download, captured, files, statuses,
                   storeVars, totalsVars, endpointVars, formVars, sliceVars>>

\* the libraries are loaded: document.getElementById(elementId), then html2canvas(element)
ImportResolves ==
    /\ pc = "importing"
    /\ \E elementFound \in BOOLEAN :
          IF elementFound
          THEN /\ client' = "capturing"
               /\ captured' = exportPreview
               /\ statuses' = IF impl = "single"
                              THEN Append(statuses, "Capturing content...") ELSE statuses
               /\ exportState' = IF impl = "single"
                                 THEN Exporting("Capturing content...") ELSE exportState
               /\ pc' = "capturing"
               /\ UNCHANGED result
          ELSE /\ client' = "no_element"
               /\ Settle(Returned(FALSE, clientMethod, "Invoice element not found"))
               /\ UNCHANGED <<captured, statuses>>
    /\ UNCHANGED <<impl, snapshot, server, download, files, storeVars, totalsVars, endpointVars, formVars, sliceVars>>

\* html2canvas rejects: the client attempt's catch
CaptureRejects ==
    /\ pc = "capturing"
    /\ client' = "capture_error"
    /\ Settle(Returned(FALSE, clientMethod, "capture failed"))
    /\ UNCHANGED <<impl, snapshot, server, download, captured, files, statuses,
                   storeVars, totalsVars, endpointVars, formVars, sliceVars>>

BuildOutcomes == {"build_error", "save_error", "saved"}

\* mutant of savedFiles: pdf.save hands over the file and then throws
savedFilesThenThrows(outcome) ==
    IF outcome \in {"saved", "save_error"}
    THEN Append(files, [via |-> "client", shows |-> captured])
    ELSE files

\* pdf.save(filename) is reached only when building the document did not throw
savedFiles(outcome) ==
    IF outcome = "saved"
    THEN Append(files, [via |-> "client", shows |-> captured])
    ELSE files

\* mutant of buildProgress: "PDF saved" is reported before pdf.save has returned
buildProgressSavedFirst(outcome) ==
    IF outcome \in {"saved", "save_error"}
    THEN <<"Building PDF...", "PDF saved">>
    ELSE <<"Building PDF...">>

\* onProgress("Building PDF...") before the document is built, onProgress("PDF saved")
\* after pdf.save(filename) returned
buildProgress(outcome) ==
    IF outcome = "saved"
    THEN <<"Building PDF...", "PDF saved">>
    ELSE <<"Building PDF...">>

\* the canvas is ready: the document is built from it and saved
CaptureResolves ==
    /\ pc = "capturing"
    /\ \E outcome \in BuildOutcomes :
          /\ client' = outcome
          /\ files' = savedFiles(outcome)
          /\ statuses' = IF impl = "single" THEN statuses \o buildProgress(outcome)
                                             ELSE statuses
          /\ IF outcome = "saved"
             THEN Settle(Returned(TRUE, clientMethod, "undefined"))
             ELSE Settle(Returned(FALSE, clientMethod, outcome))
    /\ UNCHANGED <<impl, snapshot, server, download, captured, storeVars, totalsVars, endpointVars, formVars, sliceVars>>

Init ==
    /\ StoreInitial
    /\ ExportIdle
    /\ TotalsIdle
    /\ FormIdle
    /\ EndpointIdle
    /\ SliceIdle

Next ==
    \/ updateInvoice
    \/ setActiveInvoice
    \/ addInvoice
    \/ deleteInvoice
    \/ PreviewExport
    \/ LibraryExport
    \/ FetchRejects
    \/ FetchNotOk
    \/ BlobRejects
    \/ FetchOk
    \/ ImportRejects
    \/ ImportResolves
    \/ CaptureRejects
    \/ CaptureResolves

Spec == Init /\ [][Next]_vars

\* The scheduling the code justifies: the dynamic import and the canvas capture are local
\* work that settles one way or the other; nothing bounds the wait for the server's response.
ClientSettles ==
    \/ ImportRejects
    \/ ImportResolves
    \/ CaptureRejects
    \/ CaptureResolves

SpecLive == Spec /\ WF_vars(ClientSettles)

----------------------------------------------------------------------------
(* Export claims *)

ServerFailures == {"html_error", "network_error", "http_error", "blob_error"}

\* C1: in the server-then-client exportInvoiceToPdf, a failed server attempt is always
\* followed by the client attempt and a successful one never is; the call reports success
\* exactly when the download happened or the client attempt saved, with method "server"
\* in the first case and "client" in every other.
C1_FallbackPolicy ==
    impl = "fallback" =>
        /\ server \in ServerFailures => client # "none"
        /\ server \in {"pending", "ok"} => client = "none"
        /\ result.kind = "returned" =>
              /\ result.success <=> (download = "done" \/ client = "saved")
              /\ result.method = "server" <=> download = "done"
              /\ result.method = "client" <=> download # "done"
              /\ result.method = "client" =>
                    /\ server \in ServerFailures
                    /\ client \in BuildOutcomes \cup {"import_error", "no_element", "capture_error"}

\* C1 witness: the server answered with an error status, the element exists, and the call
\* reported success with method "client"
C1_ClientAfterHttpError ==
    /\ impl = "fallback"
    /\ server = "http_error"
    /\ client = "saved"
    /\ result = Returned(TRUE, "client", "undefined")

\* C3: the promise of an export call (exportInvoiceToPdf, and downloadPdf inside it) never
\* rejects: every exception becomes a {success: false, error} result.
C3_CallNeverRejects == result.kind # "rejected"

C5_ExportTerminates == (pc # "idle") ~> (pc = "idle")

\* C6: every file an export call delivers shows the invoice data that was passed to that
\* call, whatever happened to the store in between.
C6_PdfShowsSnapshot == \A i \in 1..Len(files) : files[i].shows = snapshot

----------------------------------------------------------------------------
(* Label editing: the editor form (updateLabel) and the inline inputs of the
   interactive preview (labelUpdater) *)

\* what a label input can hold after an edit: cleared, blank, or some text
LabelInputs == {"", " ", "Client", "Total due"}

\* a key that stored labels saved by an older version may lack
Undefined == "undefined"

\* the activeInvoice memo: labels: { ...defaultLabels, ...base.labels }
mergedLabels(stored) ==
    [key \in LabelKeys |-> IF stored[key] = Undefined THEN defaultLabels[key] ELSE stored[key]]

\* the labels of the active invoice, as every page receives them
activeLabels == mergedLabels(labels)

InitLabels ==
    /\ FormIdle
    /\ EndpointIdle
    /\ TotalsIdle
    /\ SliceIdle
    /\ StoreInitial
    /\ ExportIdle

\* editor form: labels: { ...data.labels, [key]: value || defaultLabels[key] }
updateLabel ==
    /\ \E key \in LabelKeys, value \in LabelInputs :
          labels' = [labels EXCEPT ![key] = IF value = "" THEN defaultLabels[key] ELSE value]
    /\ UNCHANGED <<fields, style, preferences, totalsVars, endpointVars, sliceVars, storeVars, exportVars>>

\* inline input of the preview: labels: { ...data.labels, [key]: value }
labelUpdater ==
    /\ \E key \in LabelKeys, value \in LabelInputs :
          labels' = [labels EXCEPT ![key] = value]
    /\ UNCHANGED <<fields, style, preferences, totalsVars, endpointVars, sliceVars, storeVars, exportVars>>

NextLabels ==
    \/ updateLabel
    \/ labelUpdater

SpecLabels == InitLabels /\ [][NextLabels]_vars

\* C11: after any sequence of label edits, through the editor form or inline in the
\* preview, every label of the active invoice is non-empty.
C11_LabelsNonEmpty == \A key \in LabelKeys : activeLabels[key] # ""

----------------------------------------------------------------------------
(* Rendering of the optional text fields.  A renderer is a list of field
   descriptors in document order: key, visibility guard ("always", "trim":
   value?.trim(), "truthy": the value itself), whether a label is rendered
   with the field, and the placeholder of its InlineEditableText.  What is
   rendered is a list of slots plus the decoration the template selects. *)

Templates == {"modern", "classic", "minimal"}

\* what a text input can hold: nothing, white space only, or some text
FieldInputs == { <<>>, <<" ">>, <<"a">> }

Descriptor(key, guard, label, placeholder) ==
    [key |-> key, guard |-> guard, label |-> label, placeholder |-> placeholder]

\* InvoicePreview, in document order
previewDescriptors ==
    << Descriptor("fromName", "always", FALSE, "Business name"),
       Descriptor("fromEmail", "trim", FALSE, "Email"),
       Descriptor("clientName", "always", TRUE, "Client name"),
       Descriptor("attnTo", "trim", TRUE, "Attn"),
       Descriptor("issueDate", "trim", TRUE, "-"),
       Descriptor("paymentTerms", "trim", TRUE, "-"),
       Descriptor("dueDate", "trim", TRUE, "-"),
       Descriptor("poNumber", "trim", TRUE, "-"),
       Descriptor("paymentDate", "trim", TRUE, "-"),
       Descriptor("notes", "trim", TRUE, "-") >>

\* generateInvoiceHtml of lib/invoice-html-template.ts, in document order
htmlDescriptors ==
    << Descriptor("fromName", "always", FALSE, ""),
       Descriptor("fromEmail", "truthy", FALSE, ""),
       Descriptor("issueDate", "trim", TRUE, ""),
       Descriptor("paymentTerms", "trim", TRUE, ""),
       Descriptor("dueDate", "trim", TRUE, ""),
       Descriptor("poNumber", "trim", TRUE, ""),
       Descriptor("paymentDate", "trim", TRUE, ""),
       Descriptor("clientName", "always", TRUE, ""),
       Descriptor("attnTo", "trim", TRUE, ""),
       Descriptor("notes", "trim", TRUE, "") >>

\* generateInvoiceHtml of the grid-layout template (src/unnamed/part_002), in document order
gridHtmlDescriptors ==
    << Descriptor("fromName", "always", TRUE, ""),
       Descriptor("fromEmail", "truthy", FALSE, ""),
       Descriptor("clientName", "always", TRUE, ""),
       Descriptor("attnTo", "truthy", TRUE, ""),
       Descriptor("issueDate", "truthy", TRUE, ""),
       Descriptor("dueDate", "truthy", TRUE, ""),
       Descriptor("paymentTerms", "truthy", TRUE, ""),
       Descriptor("poNumber", "truthy", TRUE, ""),
       Descriptor("notes", "truthy", TRUE, "") >>

\* the condition in front of a field: (value?.trim() || canEdit) && ..., value ? ... : ""
isShown(d, value, canEdit) ==
    \/ canEdit
    \/ d.guard = "always"
    \/ d.guard = "trim" /\ Trim(value) # <<>>
    \/ d.guard = "truthy" /\ value # <<>>

\* InlineEditableText / ${escapeHtml(value)}: the value, and the placeholder shown in its
\* place when the value is empty (const displayValue = value || placeholder || "-")
Slot(d, value, canEdit) ==
    [key |-> d.key,
     label |-> d.label,
     value |-> value,
     placeholder |-> IF value = <<>> THEN d.placeholder ELSE "",
     editable |-> canEdit]

RECURSIVE renderFields(_, _, _)
renderFields(descriptors, f, canEdit) ==
    IF descriptors = <<>> THEN <<>>
    ELSE LET d == Head(descriptors) IN
         (IF isShown(d, f[d.key], canEdit) THEN << Slot(d, f[d.key], canEdit) >> ELSE <<>>)
         \o renderFields(Tail(descriptors), f, canEdit)

\* mutant of InvoicePreview: the minimal template leaves the notes out
InvoicePreviewMinimalNoNotes(f, template, exportMode, hasOnUpdate) ==
    LET canEdit == hasOnUpdate /\ ~exportMode IN
    [content |-> IF template = "minimal"
                 THEN renderFields(SubSeq(previewDescriptors, 1, Len(previewDescriptors) - 1),
                                   f, canEdit)
                 ELSE renderFields(previewDescriptors, f, canEdit),
     decoration |-> [template |-> template]]

\* InvoicePreview({ invoice, template, exportMode, onUpdate })
InvoicePreview(f, template, exportMode, hasOnUpdate) ==
    LET canEdit == hasOnUpdate /\ ~exportMode IN
    [content |-> renderFields(previewDescriptors, f, canEdit),
     decoration |->
        [body |-> IF template = "classic" THEN "text-base" ELSE "text-sm",
         tableHeader |-> CASE template = "classic" -> "border-b-2"
                           [] template = "minimal" -> "border-b"
                           [] OTHER -> "",
         wrapperRadius |-> IF template = "modern" /\ ~exportMode
                           THEN "rounded-2xl" ELSE "rounded-none",
         tableRadius |-> IF template = "modern" THEN "rounded-xl" ELSE "rounded-none",
         balanceDueBg |-> IF template = "minimal" THEN "border" ELSE "headerOverlay"]]

\* generateInvoiceHtml(invoice) of lib/invoice-html-template.ts
generateInvoiceHtml(f, template) ==
    [content |-> renderFields(htmlDescriptors, f, FALSE),
     decoration |->
        [borderRadius |-> IF template = "modern" THEN "0.75rem" ELSE "0",
         tableHeaderBg |-> IF template \in {"classic", "minimal"}
                           THEN "transparent" ELSE "headerOverlay",
         tableHeaderBorder |-> CASE template = "classic" -> "2px"
                                 [] template = "minimal" -> "1px"
                                 [] OTHER -> "",
         balanceDueBg |-> IF template = "minimal" THEN "border" ELSE "headerOverlay"]]

\* generateInvoiceHtml(invoice) of the grid-layout template
generateInvoiceHtmlGrid(f, template) ==
    [content |-> renderFields(gridHtmlDescriptors, f, FALSE),
     decoration |->
        [borderRadius |-> IF template = "modern" THEN "0.75rem" ELSE "0",
         fontSize |-> IF template = "classic" THEN "16px" ELSE "14px",
         border |-> template # "minimal",
         headerBg |-> IF template = "minimal" THEN "transparent" ELSE "headerOverlay",
         tableHeaderBg |-> IF template \in {"classic", "minimal"}
                           THEN "transparent" ELSE "headerOverlay"]]

InitFields ==
    /\ FormIdle
    /\ EndpointIdle
    /\ TotalsIdle
    /\ SliceIdle
    /\ StoreInitial
    /\ ExportIdle

SetFrom ==
    /\ \E key \in FromKeys, value \in FieldInputs : fields' = [fields EXCEPT ![key] = value]
    /\ UNCHANGED <<labels, style, preferences, totalsVars, endpointVars, sliceVars, storeVars, exportVars>>

SetClient ==
    /\ \E key \in ClientKeys, value \in FieldInputs : fields' = [fields EXCEPT ![key] = value]
    /\ UNCHANGED <<labels, style, preferences, totalsVars, endpointVars, sliceVars, storeVars, exportVars>>

SetMeta ==
    /\ \E key \in MetaKeys, value \in FieldInputs : fields' = [fields EXCEPT ![key] = value]
    /\ UNCHANGED <<labels, style, preferences, totalsVars, endpointVars, sliceVars, storeVars, exportVars>>

SetNotes ==
    /\ \E value \in FieldInputs : fields' = [fields EXCEPT !["notes"] = value]
    /\ UNCHANGED <<labels, style, preferences, totalsVars, endpointVars, sliceVars, storeVars, exportVars>>

NextFields ==
    \/ SetFrom
    \/ SetClient
    \/ SetMeta
    \/ SetNotes

SpecFields == InitFields /\ [][NextFields]_vars

----------------------------------------------------------------------------
(* Rendering claims *)

\* the keys of the slots of a rendered list, in order
KeysOf(content) == [i \in 1..Len(content) |-> content[i].key]

HasSlot(content, key) == \E i \in 1..Len(content) : content[i].key = key

\* C12: in export/view mode (export flag set, or no update callback) every optional field
\* whose value is empty or white space only has no slot in the rendered preview, also
\* when a callback is passed together with the export flag; in interactive mode every
\* field has an editable slot, empty or not.
C12_EmptyFieldsOmitted ==
    \A exportMode \in BOOLEAN, hasOnUpdate \in BOOLEAN, template \in Templates :
        \A rendered \in {InvoicePreview(fields, template, exportMode, hasOnUpdate).content} :
            IF exportMode \/ ~hasOnUpdate
            THEN \A key \in FieldKeys :
                    Trim(fields[key]) = <<>> => ~HasSlot(rendered, key)
            ELSE \A key \in FieldKeys :
                    \E i \in 1..Len(rendered) : rendered[i].key = key /\ rendered[i].editable

\* C13: whatever the invoice and the mode, each renderer (preview, generated HTML of both
\* layouts) yields the same slots, in the same order and with the same values, under the
\* templates modern, classic and minimal; only the decoration depends on the template.
C13_TemplatesSameContent ==
    \A template \in Templates :
        /\ \A exportMode \in BOOLEAN, hasOnUpdate \in BOOLEAN :
              InvoicePreview(fields, template, exportMode, hasOnUpdate).content
                  = InvoicePreview(fields, "modern", exportMode, hasOnUpdate).content
        /\ generateInvoiceHtml(fields, template).content
              = generateInvoiceHtml(fields, "modern").content
        /\ generateInvoiceHtmlGrid(fields, template).content
              = generateInvoiceHtmlGrid(fields, "modern").content

\* C13 witness: an invoice with notes and a due date but no issue date, whose export
\* rendering shows the notes and is decorated differently by each of the three templates
C13_DecorationDiffers ==
    /\ fields["notes"] = <<"a">>
    /\ fields["dueDate"] = <<"a">>
    /\ fields["issueDate"] = <<>>
    /\ HasSlot(InvoicePreview(fields, "minimal", TRUE, FALSE).content, "notes")
    /\ ~HasSlot(InvoicePreview(fields, "minimal", TRUE, FALSE).content, "issueDate")
    /\ \A t1 \in Templates, t2 \in Templates :
          t1 # t2 =>
             /\ InvoicePreview(fields, t1, TRUE, FALSE).decoration
                   # InvoicePreview(fields, t2, TRUE, FALSE).decoration
             /\ generateInvoiceHtml(fields, t1).decoration
                   # generateInvoiceHtml(fields, t2).decoration

\* C14: for every invoice the export-mode preview and the generated HTML document (of
\* either layout) show the same fields in the same order; each meta value that has text
\* appears in the preview and in the HTML, and each empty one in neither.
C14_PreviewMatchesHtml ==
    \A template \in Templates :
        \A preview \in {InvoicePreview(fields, template, TRUE, FALSE).content} :
            \A html \in {generateInvoiceHtml(fields, template).content,
                         generateInvoiceHtmlGrid(fields, template).content} :
                /\ KeysOf(preview) = KeysOf(html)
                /\ \A key \in MetaKeys :
                      /\ Trim(fields[key]) # <<>> =>
                            HasSlot(preview, key) /\ HasSlot(html, key)
                      /\ fields[key] = <<>> =>
                            ~HasSlot(preview, key) /\ ~HasSlot(html, key)

----------------------------------------------------------------------------
(* Colors.  A color string is a sequence of characters; a channel is 0..255.
   The preview resolves its palette with getInvoicePalette of
   features/invoice (normalizeHex, linear luminance, blended header); the
   generated HTML with the getInvoicePalette of lib/invoice-html-template
   (no normalization, gamma-corrected luminance, solid header). *)

LowerHex == <<"0", "1", "2", "3", "4", "5", "6", "7", "8", "9", "a", "b", "c", "d", "e", "f">>
UpperHex == <<"0", "1", "2", "3", "4", "5", "6", "7", "8", "9", "A", "B", "C", "D", "E", "F">>

\* the character class [0-9a-fA-F]
IsHexDigit(c) == \E i \in 1..16 : c = LowerHex[i] \/ c = UpperHex[i]

HexValue(c) == (CHOOSE i \in 1..16 : c = LowerHex[i] \/ c = UpperHex[i]) - 1

\* parseInt(twoDigits, 16)
parseIntHex(s) == 16 * HexValue(s[1]) + HexValue(s[2])

RECURSIVE stripNonHex(_)
\* hex.replace(/[^0-9a-fA-F]/g, "")
stripNonHex(s) ==
    IF s = <<>> THEN <<>>
    ELSE (IF IsHexDigit(Head(s)) THEN <<Head(s)>> ELSE <<>>) \o stripNonHex(Tail(s))

RECURSIVE padEnd(_, _, _)
\* s.padEnd(n, c)
padEnd(s, n, c) == IF Len(s) >= n THEN s ELSE padEnd(Append(s, c), n, c)

\* s.slice(from, to) for 0 <= from <= to
slice(s, from, to) == SubSeq(s, from + 1, IF to < Len(s) THEN to ELSE Len(s))

White == <<"#", "F", "F", "F", "F", "F", "F">>

\* mutant of normalizeHex: the digits are padded on the left
normalizeHexPadStart(hex) ==
    LET cleaned == stripNonHex(hex) IN
    IF cleaned = <<>> THEN White
    ELSE IF Len(cleaned) = 3
         THEN <<"#", cleaned[1], cleaned[1], cleaned[2], cleaned[2], cleaned[3], cleaned[3]>>
         ELSE <<"#">> \o slice([i \in 1..(6 - Len(cleaned)) |-> "0"] \o cleaned, 0, 6)

normalizeHex(hex) ==
    LET cleaned == stripNonHex(hex) IN
    IF cleaned = <<>> THEN White
    ELSE IF Len(cleaned) = 3
         THEN <<"#", cleaned[1], cleaned[1], cleaned[2], cleaned[2], cleaned[3], cleaned[3]>>
         ELSE <<"#">> \o slice(padEnd(cleaned, 6, "0"), 0, 6)

\* hexToRgb of features/invoice: normalizes first
hexToRgb(hex) ==
    LET normalized == Tail(normalizeHex(hex)) IN
    [r |-> parseIntHex(slice(normalized, 0, 2)),
     g |-> parseIntHex(slice(normalized, 2, 4)),
     b |-> parseIntHex(slice(normalized, 4, 6))]

\* luminance = (0.2126 r + 0.7152 g + 0.0722 b) / 255; luminance > 0.6 ? "#111111" : "#FFFFFF"
\* (both sides of the comparison multiplied by 255 * 10000)
getContrastColorFromRgb(rgb) ==
    IF 2126 * rgb.r + 7152 * rgb.g + 722 * rgb.b > 1530000 THEN "#111111" ELSE "#FFFFFF"

getContrastColor(hex) == getContrastColorFromRgb(hexToRgb(hex))

\* rgba(r, g, b, alpha), alpha in hundredths
rgba(rgb, alpha) == [css |-> "rgba", r |-> rgb.r, g |-> rgb.g, b |-> rgb.b, alpha |-> alpha]

\* Math.round(f * alpha + b * (1 - alpha)) per channel, alpha in hundredths
blendRgb(foreground, background, alpha) ==
    [r |-> (foreground.r * alpha + background.r * (100 - alpha) + 50) \div 100,
     g |-> (foreground.g * alpha + background.g * (100 - alpha) + 50) \div 100,
     b |-> (foreground.b * alpha + background.b * (100 - alpha) + 50) \div 100]

\* const headerAlpha = 0.25, in hundredths
headerAlpha == 25

\* getInvoicePalette(background, header) of features/invoice (the preview's resolver)
getInvoicePalette(background, header) ==
    LET normalizedBackground == normalizeHex(background)
        normalizedHeader == normalizeHex(header)
        bgRgb == hexToRgb(normalizedBackground)
        headerRgb == hexToRgb(normalizedHeader)
        blendedHeaderRgb == blendRgb(headerRgb, bgRgb, headerAlpha)
        foreground == getContrastColor(normalizedBackground)
    IN  [background |-> normalizedBackground,
         foreground |-> foreground,
         muted |-> IF foreground = "#FFFFFF"
                   THEN "rgba(255, 255, 255, 0.72)" ELSE "rgba(17, 17, 17, 0.6)",
         border |-> IF foreground = "#FFFFFF"
                    THEN "rgba(255, 255, 255, 0.18)" ELSE "rgba(17, 17, 17, 0.14)",
         header |-> normalizedHeader,
         headerOverlay |-> rgba(headerRgb, headerAlpha),
         headerForeground |-> getContrastColorFromRgb(blendedHeaderRgb)]

\* the result of a regular expression that did not match
Null == [r |-> -1, g |-> -1, b |-> -1]

\* hexToRgb of lib/invoice-html-template: /^#?([a-f\d]{2})([a-f\d]{2})([a-f\d]{2})$/i or null
htmlHexToRgb(hex) ==
    LET digits == IF hex # <<>> /\ Head(hex) = "#" THEN Tail(hex) ELSE hex IN
    IF Len(digits) = 6 /\ \A i \in 1..6 : IsHexDigit(digits[i])
    THEN [r |-> parseIntHex(slice(digits, 0, 2)),
          g |-> parseIntHex(slice(digits, 2, 4)),
          b |-> parseIntHex(slice(digits, 4, 6))]
    ELSE Null

\* s <= 0.03928 ? s / 12.92 : ((s + 0.055) / 1.055) ^ 2.4, for s = c / 255, c = 0..255,
\* in millionths (entry c + 1 is the value for channel c)
srgbLinear ==
    << 0, 304, 607, 911, 1214, 1518, 1821, 2125, 2428, 2732, 3035, 3347,
       3677, 4025, 4391, 4777, 5182, 5605, 6049, 6512, 6995, 7499, 8023, 8568,
       9134, 9721, 10330, 10960, 11612, 12286, 12983, 13702, 14444, 15209, 15996, 16807,
       17642, 18500, 19382, 20289, 21219, 22174, 23153, 24158, 25187, 26241, 27321, 28426,
       29557, 30713, 31896, 33105, 34340, 35601, 36889, 38204, 39546, 40915, 42311, 43735,
       45186, 46665, 48172, 49707, 51269, 52861, 54480, 56128, 57805, 59511, 61246, 63010,
       64803, 66626, 68478, 70360, 72272, 74214, 76185, 78187, 80220, 82283, 84376, 86500,
       88656, 90842, 93059, 95307, 97587, 99899, 102242, 104616, 107023, 109462, 111932, 114435,
       116971, 119538, 122139, 124772, 127438, 130136, 132868, 135633, 138432, 141263, 144128, 147027,
       149960, 152926, 155926, 158961, 162029, 165132, 168269, 171441, 174647, 177888, 181164, 184475,
       187821, 191202, 194618, 198069, 201556, 205079, 208637, 212231, 215861, 219526, 223228, 226966,
       230740, 234551, 238398, 242281, 246201, 250158, 254152, 258183, 262251, 266356, 270498, 274677,
       278894, 283149, 287441, 291771, 296138, 300544, 304987, 309469, 313989, 318547, 323143, 327778,
       332452, 337164, 341914, 346704, 351533, 356400, 361307, 366253, 371238, 376262, 381326, 386429,
       391572, 396755, 401978, 407240, 412543, 417885, 423268, 428690, 434154, 439657, 445201, 450786,
       456411, 462077, 467784, 473531, 479320, 485150, 491021, 496933, 502886, 508881, 514918, 520996,
       527115, 533276, 539479, 545724, 552011, 558340, 564712, 571125, 577580, 584078, 590619, 597202,
       603827, 610496, 617207, 623960, 630757, 637597, 644480, 651406, 658375, 665387, 672443, 679542,
       686685, 693872, 701102, 708376, 715694, 723055, 730461, 737910, 745404, 752942, 760525, 768151,
       775822, 783538, 791298, 799103, 806952, 814847, 822786, 830770, 838799, 846873, 854993, 863157,
       871367, 879622, 887923, 896269, 904661, 913099, 921582, 930111, 938686, 947307, 955973, 964686,
       973445, 982251, 991102, 1000000 >>

\* getLuminance(r, g, b), in millionths
getLuminance(r, g, b) ==
    LET rs == srgbLinear[r + 1]
        gs == srgbLinear[g + 1]
        bs == srgbLinear[b + 1]
    IN  2126 * (rs \div 10000) + 7152 * (gs \div 10000) + 722 * (bs \div 10000)
        + (2126 * (rs % 10000) + 7152 * (gs % 10000) + 722 * (bs % 10000)) \div 10000

\* getContrastingTextColor(bgColor): luminance > 0.179 ? "#1f2937" : "#f9fafb"
getContrastingTextColor(bgColor) ==
    LET rgb == htmlHexToRgb(bgColor) IN
    IF rgb = Null THEN "#000000"
    ELSE IF getLuminance(rgb.r, rgb.g, rgb.b) > 179000 THEN "#1f2937" ELSE "#f9fafb"

\* getInvoicePalette(backgroundColor, headerColor) of lib/invoice-html-template
htmlGetInvoicePalette(backgroundColor, headerColor) ==
    LET bgRgb == htmlHexToRgb(backgroundColor)
        bgLuminance == IF bgRgb = Null THEN 1000000 ELSE getLuminance(bgRgb.r, bgRgb.g, bgRgb.b)
        isDark == bgLuminance < 500000
    IN  [background |-> backgroundColor,
         foreground |-> getContrastingTextColor(backgroundColor),
         muted |-> IF isDark THEN "#9ca3af" ELSE "#6b7280",
         border |-> IF isDark THEN "#374151" ELSE "#e5e7eb",
         headerOverlay |-> [css |-> "hex", value |-> headerColor],
         headerForeground |-> getContrastingTextColor(headerColor)]

\* what the color fields can hold: the color picker's "#rrggbb", and any text typed into
\* the input next to it (malformed, empty, partial, shorthand, no "#", too long)
ColorInputs ==
    { <<"#", "0", "0", "0", "0", "0", "0">>,
      <<"#", "F", "F", "F", "F", "F", "F">>,
      <<"#", "0", "6", "B", "6", "D", "4">>,
      <<"z", "z", "z">>,
      <<>>,
      <<"#", "1">>,
      <<"a", "b", "c">>,
      <<"#", "F", "F", "F">>,
      <<"1", "f", "2", "9", "3", "7">>,
      <<"#", "1", "2", "3", "4", "5", "6", "7", "8">>,
      <<"#", "1", "2", " ", "3", "4">> }

RECURSIVE toLowerCase(_)
\* s.toLowerCase() (only the letters A-F occur in upper case)
toLowerCase(s) ==
    IF s = <<>> THEN <<>>
    ELSE LET c == Head(s) IN
         << IF \E i \in 11..16 : c = UpperHex[i]
            THEN LowerHex[CHOOSE i \in 11..16 : c = UpperHex[i]]
            ELSE c >> \o toLowerCase(Tail(s))

DefaultHeaderColor == <<"#", "0", "6", "B", "6", "D", "4">>

\* the activeInvoice memo: the style every page and both renderers receive
activeStyle ==
    IF ~style.useCustomColors
    THEN [style EXCEPT !.headerColor = DefaultHeaderColor, !.backgroundColor = White]
    ELSE IF toLowerCase(style.headerColor) \in { <<"#", "e", "2", "4", "b", "2", "a">>,
                                                 <<"#", "f", "9", "7", "3", "1", "6">> }
         THEN [style EXCEPT !.headerColor = DefaultHeaderColor]
         ELSE style

\* getThemePalette(theme) of features/invoice
getThemePalette(theme) ==
    IF theme = "dark"
    THEN [header |-> <<"#", "2", "2", "D", "3", "E", "E">>,
          background |-> <<"#", "0", "B", "1", "4", "1", "6">>]
    ELSE [header |-> DefaultHeaderColor, background |-> White]

\* THEME_PALETTES of lib/invoice-html-template
THEME_PALETTES ==
    [light |-> [background |-> <<"#", "f", "f", "f", "f", "f", "f">>,
                header |-> <<"#", "f", "3", "f", "4", "f", "6">>],
     dark |-> [background |-> <<"#", "1", "f", "2", "9", "3", "7">>,
               header |-> <<"#", "3", "7", "4", "1", "5", "1">>]]

\* useInvoiceStore: resolvedTheme
resolvedTheme == IF settings.uiTheme = "dark" THEN "dark" ELSE "light"

\* useInvoiceStore: invoiceTheme, which every page passes to InvoicePreview as theme
invoiceTheme ==
    IF preferences.useCustomTheme THEN preferences.invoiceTheme ELSE resolvedTheme

\* generateInvoiceHtml: the theme whose palette it takes
htmlTheme == preferences.invoiceTheme

\* InvoicePreview: const palette = getInvoicePalette(...)
previewPalette ==
    LET themePalette == getThemePalette(invoiceTheme) IN
    getInvoicePalette(
        IF activeStyle.useCustomColors THEN activeStyle.backgroundColor
                                       ELSE themePalette.background,
        IF activeStyle.useCustomColors THEN activeStyle.headerColor ELSE themePalette.header)

\* generateInvoiceHtml: const palette = getInvoicePalette(...)
htmlPalette ==
    LET themePalette == THEME_PALETTES[htmlTheme] IN
    htmlGetInvoicePalette(
        IF activeStyle.useCustomColors THEN activeStyle.backgroundColor
                                       ELSE themePalette.background,
        IF activeStyle.useCustomColors THEN activeStyle.headerColor ELSE themePalette.header)

InitColors ==
    /\ FormIdle
    /\ EndpointIdle
    /\ TotalsIdle
    /\ SliceIdle
    /\ StoreInitial
    /\ ExportIdle

SetUseCustomColors ==
    /\ \E checked \in BOOLEAN : style' = [style EXCEPT !.useCustomColors = checked]
    /\ UNCHANGED <<labels, fields, preferences, totalsVars, endpointVars, sliceVars, storeVars, exportVars>>

\* the header ColorField, enabled only with custom colors
SetHeaderColor ==
    /\ activeStyle.useCustomColors
    /\ \E value \in ColorInputs : style' = [style EXCEPT !.headerColor = value]
    /\ UNCHANGED <<labels, fields, preferences, totalsVars, endpointVars, sliceVars, storeVars, exportVars>>

\* the background ColorField, enabled only with custom colors
SetBackgroundColor ==
    /\ activeStyle.useCustomColors
    /\ \E value \in ColorInputs : style' = [style EXCEPT !.backgroundColor = value]
    /\ UNCHANGED <<labels, fields, preferences, totalsVars, endpointVars, sliceVars, storeVars, exportVars>>

\* the "Override UI theme" switch
SetUseCustomTheme ==
    /\ \E checked \in BOOLEAN :
          preferences' = [preferences EXCEPT !.useCustomTheme = checked]
    /\ UNCHANGED <<labels, fields, style, totalsVars, endpointVars, sliceVars, storeVars, exportVars>>

\* the shell's "Toggle UI theme" button
ToggleUiTheme ==
    /\ settings' = [settings EXCEPT !.uiTheme = IF @ = "dark" THEN "light" ELSE "dark"]
    /\ UNCHANGED <<invoices, activeInvoiceId, nextId, folders, nextFolderId, selectedFolderId,
                   now, formVars, totalsVars, endpointVars, sliceVars, exportVars>>

\* the invoice theme Select, disabled unless the invoice overrides the UI theme
SetInvoiceTheme ==
    /\ preferences.useCustomTheme
    /\ \E value \in {"light", "dark"} :
          preferences' = [preferences EXCEPT !.invoiceTheme = value]
    /\ UNCHANGED <<labels, fields, style, totalsVars, endpointVars, sliceVars, storeVars, exportVars>>

NextColors ==
    \/ SetUseCustomColors
    \/ SetHeaderColor
    \/ SetBackgroundColor
    \/ SetInvoiceTheme
    \/ SetUseCustomTheme
    \/ ToggleUiTheme

SpecColors == InitColors /\ [][NextColors]_vars

----------------------------------------------------------------------------
(* Color claims *)

\* "#" followed by exactly 6 hex digits
IsNormalizedHex(s) ==
    /\ Len(s) = 7
    /\ s[1] = "#"
    /\ \A i \in 2..7 : IsHexDigit(s[i])

\* C15: with header color "#000000" on background "#FFFFFF", both resolvers return their
\* light text color as headerForeground and their dark text color as foreground.
C15_BlackHeaderOnWhite ==
    (/\ style.useCustomColors
     /\ style.headerColor = <<"#", "0", "0", "0", "0", "0", "0">>
     /\ style.backgroundColor = White)
    => /\ previewPalette.foreground = "#111111"
       /\ previewPalette.headerForeground = "#FFFFFF"
       /\ htmlPalette.foreground = "#1f2937"
       /\ htmlPalette.headerForeground = "#f9fafb"

\* C16: for the same two colors the header overlay of the preview's palette is the same
\* color value as the header overlay of the generated HTML's palette.
C16_SameHeaderOverlay ==
    style.useCustomColors => previewPalette.headerOverlay = htmlPalette.headerOverlay

\* C17: whatever the two color strings, the background and the header color returned by
\* the preview's resolver and by the HTML template's resolver are "#" plus 6 hex digits.
C17_PaletteNormalized ==
    style.useCustomColors =>
        /\ IsNormalizedHex(previewPalette.background)
        /\ IsNormalizedHex(previewPalette.header)
        /\ IsNormalizedHex(htmlPalette.background)
        /\ IsNormalizedHex(htmlPalette.headerOverlay.value)

\* C18: normalizeHex returns "#" plus 6 hex digits: white when the input has no hex digit,
\* each digit doubled when it has exactly 3, otherwise its hex digits in order, padded on
\* the right with "0" and cut to 6.
C18_NormalizeHex ==
    \A hex \in {style.headerColor, style.backgroundColor} :
        \A normalized \in {normalizeHex(hex)} :
            LET cleaned == SelectSeq(hex, IsHexDigit) IN
            /\ IsNormalizedHex(normalized)
            /\ cleaned = <<>> => normalized = White
            /\ Len(cleaned) = 3 =>
                  \A i \in 1..3 : normalized[2 * i] = cleaned[i] /\ normalized[2 * i + 1] = cleaned[i]
            /\ Len(cleaned) \notin {0, 3} =>
                  \A i \in 1..6 :
                      normalized[i + 1] = IF i <= Len(cleaned) THEN cleaned[i] ELSE "0"

\* C18 witness: a 3-digit shorthand without "#" and a partial input, normalized
C18_ShorthandAndPartial ==
    /\ style.headerColor = <<"a", "b", "c">>
    /\ style.backgroundColor = <<"#", "1">>
    /\ normalizeHex(style.headerColor) = <<"#", "a", "a", "b", "b", "c", "c">>
    /\ normalizeHex(style.backgroundColor) = <<"#", "1", "0", "0", "0", "0", "0">>

----------------------------------------------------------------------------
(* Currency formatting *)

\* the Select of the preferences card offers these codes
currencyOptions == { <<"U", "S", "D">>, <<"E", "U", "R">>, <<"J", "P", "Y">> }

\* what a stored document can hold in preferences.currency: any string
StoredCurrencies ==
    currencyOptions \cup { <<>>, <<"U", "S">>, <<"u", "s", "d">>, <<"X", "Y", "Z">>,
                           <<"U", "S", "$">>, <<"d", "o", "l", "l", "a", "r">> }

Letters ==
    { "a", "b", "c", "d", "e", "f", "g", "h", "i", "j", "k", "l", "m",
      "n", "o", "p", "q", "r", "s", "t", "u", "v", "w", "x", "y", "z",
      "A", "B", "C", "D", "E", "F", "G", "H", "I", "J", "K", "L", "M",
      "N", "O", "P", "Q", "R", "S", "T", "U", "V", "W", "X", "Y", "Z" }

\* new Intl.NumberFormat(.., {style: "currency", currency}) throws a RangeError unless
\* the code is three ASCII letters
IsWellFormedCurrencyCode(currency) ==
    /\ Len(currency) = 3
    /\ \A i \in 1..3 : currency[i] \in Letters

\* the number of minor-unit digits Intl.NumberFormat takes for a currency
currencyDigits(currency) ==
    IF currency \in { <<"J", "P", "Y">>, <<"j", "p", "y">> } THEN 0 ELSE 2

RangeError ==
    [kind |-> "RangeError", locale |-> "", currency |-> <<>>, value |-> NaN,
     minimumFractionDigits |-> 0, maximumFractionDigits |-> 0]

\* the text Intl.NumberFormat(locale, options).format(value) produces
NumberFormat(locale, currency, minimumFractionDigits, maximumFractionDigits, value) ==
    [kind |-> "Intl", locale |-> locale, currency |-> currency, value |-> value,
     minimumFractionDigits |-> minimumFractionDigits,
     maximumFractionDigits |-> maximumFractionDigits]

\* `$${amount.toFixed(2)}`
dollarToFixed2(amount) ==
    [kind |-> "toFixed", locale |-> "", currency |-> <<"$">>, value |-> amount,
     minimumFractionDigits |-> 2, maximumFractionDigits |-> 2]

\* formatCurrency(value, currency) of features/invoice, used by InvoicePreview
formatCurrency(value, currency) ==
    IF IsWellFormedCurrencyCode(currency)
    THEN NumberFormat("undefined", currency,
                      IF currencyDigits(currency) < 2 THEN currencyDigits(currency) ELSE 2,
                      2, value)
    ELSE RangeError

\* formatCurrency(amount, currency) of lib/invoice-html-template
htmlFormatCurrency(amount, currency) ==
    IF IsWellFormedCurrencyCode(currency)
    THEN NumberFormat("en-US", currency, 2, 2, amount)
    ELSE dollarToFixed2(amount)

TotalsKeys ==
    {"subtotal", "tax", "discount", "shipping", "total", "amountPaid", "amountDue"}

\* the amounts InvoicePreview prints: per total, formatCurrency(totals.x, currency)
previewAmounts ==
    LET totals == previewTotals IN
    [key \in TotalsKeys |-> formatCurrency(totals[key], preferences.currency)]

\* the amounts generateInvoiceHtml prints
htmlAmounts ==
    LET totals == htmlTotals IN
    [key \in TotalsKeys |-> htmlFormatCurrency(totals[key], preferences.currency)]

InitCurrency == InitTotals

\* the currency Select of the editor
SetCurrency ==
    /\ \E value \in currencyOptions :
          preferences' = [preferences EXCEPT !.currency = value]
    /\ UNCHANGED <<labels, fields, style, totalsVars, endpointVars, sliceVars, storeVars, exportVars>>

\* the store read from localStorage: JSON.parse(stored) as T, no validation
ReadStoredCurrency ==
    /\ \E value \in StoredCurrencies :
          preferences' = [preferences EXCEPT !.currency = value]
    /\ UNCHANGED <<labels, fields, style, totalsVars, endpointVars, sliceVars, storeVars, exportVars>>

NextCurrency ==
    \/ SetCurrency
    \/ ReadStoredCurrency
    \/ AddItem
    \/ SetQuantity
    \/ SetRate
    \/ SetAmountPaid

SpecCurrency == InitCurrency /\ [][NextCurrency]_vars

----------------------------------------------------------------------------
(* Currency claims *)

\* C19: with a currency code that makes Intl.NumberFormat fail, every amount printed by
\* the preview and by the generated HTML is "$" followed by the amount with 2 decimals;
\* no formatter throws.
C19_InvalidCurrencyFallsBack ==
    ~IsWellFormedCurrencyCode(preferences.currency) =>
        \A key \in TotalsKeys :
            /\ htmlAmounts[key] = dollarToFixed2(htmlTotals[key])
            /\ previewAmounts[key] = dollarToFixed2(previewTotals[key])

----------------------------------------------------------------------------
(* The route's own exportToPdf (routes/InvoicePage): no server attempt, no export
   state, no result; the work runs in a timer callback 120 ms after the click. *)

\* exportToPdf(invoiceId, setActive, targetId): setActive(invoiceId), window.setTimeout(.., 120)
routeExportToPdf ==
    /\ pc = "idle"
    /\ \E i \in 1..Len(invoices) : activeInvoiceId' = invoices[i].id
    /\ impl' = "route"
    /\ pc' = "timer"
    /\ snapshot' = NoContent
    /\ server' = "none"
    /\ download' = "none"
    /\ client' = "none"
    /\ captured' = NoContent
    /\ result' = NoResult
    /\ files' = <<>>
    /\ statuses' = <<>>
    /\ UNCHANGED <<exportState, invoices, nextId, libraryVars, totalsVars, endpointVars, formVars, sliceVars>>

\* the timer fires: document.getElementById(targetId); if (!element) return;
routeTimeout ==
    /\ pc = "timer"
    /\ \E elementFound \in BOOLEAN :
          IF elementFound
          THEN /\ client' = "capturing"
               /\ captured' = exportPreview
               /\ pc' = "route_capturing"
          ELSE /\ client' = "no_element"
               /\ pc' = "idle"
               /\ UNCHANGED captured
    /\ UNCHANGED <<exportState, impl, snapshot, server, download, result, files, statuses,
                   storeVars, totalsVars, endpointVars, formVars, sliceVars>>

\* html2canvas rejects inside the timer callback: nothing catches it
routeCaptureRejects ==
    /\ pc = "route_capturing"
    /\ client' = "capture_error"
    /\ pc' = "idle"
    /\ UNCHANGED <<exportState, impl, snapshot, server, download, captured, result, files,
                   statuses, storeVars, totalsVars, endpointVars, formVars, sliceVars>>

\* the canvas is ready: the document is built from it and saved with pdf.save("invoice.pdf")
routeCaptureResolves ==
    /\ pc = "route_capturing"
    /\ \E outcome \in BuildOutcomes :
          /\ client' = outcome
          /\ files' = savedFiles(outcome)
    /\ pc' = "idle"
    /\ UNCHANGED <<exportState, impl, snapshot, server, download, captured, result, statuses,
                   storeVars, totalsVars, endpointVars, formVars, sliceVars>>

InitElement == Init

NextElement ==
    \/ updateInvoice
    \/ addInvoice
    \/ PreviewExport
    \/ LibraryExport
    \/ FetchRejects
    \/ FetchNotOk
    \/ BlobRejects
    \/ FetchOk
    \/ ImportRejects
    \/ ImportResolves
    \/ CaptureRejects
    \/ CaptureResolves
    \/ routeExportToPdf
    \/ routeTimeout
    \/ routeCaptureRejects
    \/ routeCaptureResolves

SpecElement == InitElement /\ [][NextElement]_vars

----------------------------------------------------------------------------
(* Claims about the missing element *)

\* C20: when the client attempt does not find the element to rasterize, the export call
\* has returned a failure result with the message "Invoice element not found", it has
\* captured nothing and saved no file, and it is over (no second attempt is pending).
C20_ElementNotFound ==
    client = "no_element" =>
        /\ result.kind = "returned"
        /\ ~result.success
        /\ result.error = "Invoice element not found"
        /\ captured = NoContent
        /\ files = <<>>
        /\ pc = "idle"

----------------------------------------------------------------------------
(* The PDF endpoint (onRequestPost).  One action is the code between two awaits;
   request.json(), puppeteer.launch, newPage, setContent, pdf and close may reject,
   and new Response throws a TypeError on a header value it cannot carry. *)

MaxLeaked == 2      \* sessions left open by earlier requests are counted up to MaxLeaked

\* what the body of a POST can be: not JSON, the JSON value null, or an object
RequestBodies == {"unparsable", "null", "object"}
HtmlInputs == {"undefined", "", "<p>invoice</p>"}
FilenameInputs == {"undefined", "a.pdf", "a\nb.pdf"}

Requests ==
    { [body |-> "unparsable", html |-> "undefined", filename |-> "undefined"],
      [body |-> "null", html |-> "undefined", filename |-> "undefined"] }
    \cup [body : {"object"}, html : HtmlInputs, filename : FilenameInputs]

\* const { html, filename = "invoice.pdf" } = body
filenameOf(req) == IF req.filename = "undefined" THEN "invoice.pdf" ELSE req.filename

\* a header value with a line break is refused by the Response constructor
IsHeaderValue(value) == value # "a\nb.pdf"

\* the 400 response
badRequest ==
    [status |-> 400, contentType |-> "application/json", disposition |-> "none",
     body |-> [kind |-> "json", error |-> "HTML content is required",
               details |-> "undefined", of |-> "none"]]

\* mutant of serverError: the failure response is sent as a PDF
serverErrorAsPdf(details) ==
    [status |-> 500, contentType |-> "application/pdf", disposition |-> "none",
     body |-> [kind |-> "pdf", error |-> "none", details |-> details, of |-> "none"]]

\* the 500 response of the catch block
serverError(details) ==
    [status |-> 500, contentType |-> "application/json", disposition |-> "none",
     body |-> [kind |-> "json", error |-> "Failed to generate PDF",
               details |-> details, of |-> "none"]]

\* the 200 response: the PDF rendered from html, as an attachment named filename
pdfResponse(html, filename) ==
    [status |-> 200, contentType |-> "application/pdf", disposition |-> filename,
     body |-> [kind |-> "pdf", error |-> "none", details |-> "none", of |-> html]]

\* the handler returns res
Respond(res) ==
    /\ response' = res
    /\ handler' = "responded"

\* a POST arrives: onRequestPost runs up to await request.json()
onRequestPost ==
    /\ handler \in {"idle", "responded"}
    /\ browser = "open" => leaked < MaxLeaked
    /\ \E req \in Requests : request' = req
    /\ handler' = "json"
    /\ leaked' = IF browser = "open" THEN leaked + 1 ELSE leaked
    /\ browser' = "none"
    /\ response' = NoResponse
    /\ UNCHANGED <<totalsVars, formVars, sliceVars, storeVars, exportVars>>

\* request.json() rejects, or destructuring the parsed null throws: the catch block
JsonRejects ==
    /\ handler = "json"
    /\ request.body \in {"unparsable", "null"}
    /\ Respond(serverError(IF request.body = "null" THEN "TypeError" ELSE "SyntaxError"))
    /\ UNCHANGED <<request, browser, leaked, totalsVars, formVars, sliceVars, storeVars, exportVars>>

\* the body is an object: if (!html) return 400, else await puppeteer.launch
JsonResolves ==
    /\ handler = "json"
    /\ request.body = "object"
    /\ IF request.html \in {"undefined", ""}
       THEN Respond(badRequest)
       ELSE /\ handler' = "launch"
            /\ UNCHANGED response
    /\ UNCHANGED <<request, browser, leaked, totalsVars, formVars, sliceVars, storeVars, exportVars>>

LaunchRejects ==
    /\ handler = "launch"
    /\ Respond(serverError("launch failed"))
    /\ UNCHANGED <<request, browser, leaked, totalsVars, formVars, sliceVars, storeVars, exportVars>>

\* const browser = await puppeteer.launch(env.BROWSER)
LaunchResolves ==
    /\ handler = "launch"
    /\ browser' = "open"
    /\ handler' = "newPage"
    /\ UNCHANGED <<request, leaked, response, totalsVars, formVars, sliceVars, storeVars, exportVars>>

NewPageRejects ==
    /\ handler = "newPage"
    /\ Respond(serverError("newPage failed"))
    /\ UNCHANGED <<request, browser, leaked, totalsVars, formVars, sliceVars, storeVars, exportVars>>

\* const page = await browser.newPage()
NewPageResolves ==
    /\ handler = "newPage"
    /\ handler' = "setContent"
    /\ UNCHANGED <<request, browser, leaked, response, totalsVars, formVars, sliceVars, storeVars, exportVars>>

SetContentRejects ==
    /\ handler = "setContent"
    /\ Respond(serverError("setContent failed"))
    /\ UNCHANGED <<request, browser, leaked, totalsVars, formVars, sliceVars, storeVars, exportVars>>

\* await page.setContent(html, { waitUntil: "networkidle0" })
SetContentResolves ==
    /\ handler = "setContent"
    /\ handler' = "pdf"
    /\ UNCHANGED <<request, browser, leaked, response, totalsVars, formVars, sliceVars, storeVars, exportVars>>

PdfRejects ==
    /\ handler = "pdf"
    /\ Respond(serverError("pdf failed"))
    /\ UNCHANGED <<request, browser, leaked, totalsVars, formVars, sliceVars, storeVars, exportVars>>

\* const pdfBuffer = await page.pdf({ .. })
PdfResolves ==
    /\ handler = "pdf"
    /\ handler' = "close"
    /\ UNCHANGED <<request, browser, leaked, response, totalsVars, formVars, sliceVars, storeVars, exportVars>>

CloseRejects ==
    /\ handler = "close"
    /\ Respond(serverError("close failed"))
    /\ UNCHANGED <<request, browser, leaked, totalsVars, formVars, sliceVars, storeVars, exportVars>>

\* await browser.close(), then return new Response(pdfBuffer, { status: 200, headers })
CloseResolves ==
    /\ handler = "close"
    /\ browser' = "closed"
    /\ IF IsHeaderValue(filenameOf(request))
       THEN Respond(pdfResponse(request.html, filenameOf(request)))
       ELSE Respond(serverError("TypeError"))
    /\ UNCHANGED <<request, leaked, totalsVars, formVars, sliceVars, storeVars, exportVars>>

InitEndpoint ==
    /\ EndpointIdle
    /\ TotalsIdle
    /\ FormIdle
    /\ SliceIdle
    /\ StoreInitial
    /\ ExportIdle

NextEndpoint ==
    \/ onRequestPost
    \/ JsonRejects
    \/ JsonResolves
    \/ LaunchRejects
    \/ LaunchResolves
    \/ NewPageRejects
    \/ NewPageResolves
    \/ SetContentRejects
    \/ SetContentResolves
    \/ PdfRejects
    \/ PdfResolves
    \/ CloseRejects
    \/ CloseResolves

SpecEndpoint == InitEndpoint /\ [][NextEndpoint]_vars

----------------------------------------------------------------------------
(* Endpoint claims *)

\* C21: every response of the PDF endpoint is one of: 200 with Content-Type
\* application/pdf, an attachment header with the requested filename and the PDF of the
\* posted html; 400 with a JSON error, exactly when the body parsed to an object whose html
\* is missing or empty; 500 with a JSON body {error, details}.  Only a 200 carries a PDF.
C21_ResponseShapes ==
    handler = "responded" =>
        /\ \/ /\ response.status = 200
              /\ response.contentType = "application/pdf"
              /\ response.disposition = filenameOf(request)
              /\ response.body.kind = "pdf"
              /\ response.body.of = request.html
              /\ request.html \notin {"undefined", ""}
           \/ /\ response.status = 400
              /\ response.contentType = "application/json"
              /\ response.body.kind = "json"
              /\ response.body.error = "HTML content is required"
           \/ /\ response.status = 500
              /\ response.contentType = "application/json"
              /\ response.body.kind = "json"
              /\ response.body.error = "Failed to generate PDF"
              /\ response.body.details \notin {"undefined", "none"}
        /\ response.status = 400
              <=> (request.body = "object" /\ request.html \in {"undefined", ""})
        /\ response.status # 200 => response.body.kind # "pdf"
        /\ response.status = 200 => response.body.kind # "json"

\* C21 witness: a request with a filename answered with the PDF, after a failed request
C21_PdfAfterFailure ==
    /\ handler = "responded"
    /\ response.status = 200
    /\ response.disposition = "a.pdf"
    /\ leaked > 0

\* C28: when the handler has returned its response, no browser session it launched is
\* still open.
C28_BrowserClosed ==
    handler = "responded" => browser # "open"

----------------------------------------------------------------------------
(* Claims about the page's export state *)

ClientFailures == {"import_error", "no_element", "capture_error", "build_error", "save_error"}

\* C23: isExporting is true exactly while exportToPdf is running; once it has finished,
\* error is null exactly when the call succeeded, and then status is "PDF saved"; otherwise
\* status is empty, error is a non-empty message, and every strategy of the call has failed
\* (the server attempt and the client attempt, or the client attempt alone).
C23_ExportState ==
    /\ exportState.isExporting <=> pc # "idle"
    /\ (pc = "idle" /\ impl # "none") =>
          /\ exportState.error = "null" <=> (result.kind = "returned" /\ result.success)
          /\ exportState.error = "null" => exportState.status = "PDF saved"
          /\ exportState.error # "null" =>
                /\ exportState.status = ""
                /\ exportState.error # ""
                /\ client \in ClientFailures
                /\ impl = "fallback" => server \in ServerFailures

\* the statuses exportInvoiceToPdf of lib/invoice-html-template passes to onProgress
ClientStatuses ==
    <<"Rendering invoice...", "Capturing content...", "Building PDF...", "PDF saved">>

\* C24: the statuses one client export has emitted are an initial part of "Rendering
\* invoice...", "Capturing content...", "Building PDF...", "PDF saved"; "PDF saved" is there
\* only when the file was saved; a call that failed has emitted exactly the statuses that
\* precede the step that failed, and none after it.
C24_StatusOrder ==
    impl = "single" =>
        /\ \E n \in 0..Len(ClientStatuses) : statuses = SubSeq(ClientStatuses, 1, n)
        /\ Len(statuses) = 4 <=> (Len(files) = 1 /\ client = "saved")
        /\ client \in {"import_error", "no_element"} => Len(statuses) = 1
        /\ client = "capture_error" => Len(statuses) = 2
        /\ client \in {"build_error", "save_error"} => Len(statuses) = 3

\* C24 witness: a client export that saved its file after emitting all four statuses
C24_AllFourStatuses ==
    /\ impl = "single"
    /\ statuses = ClientStatuses
    /\ Len(files) = 1
    /\ pc = "idle"

----------------------------------------------------------------------------
(* Claims about the theme *)

\* C30: the theme whose palette generateInvoiceHtml takes is the theme the preview is
\* rendered with: the invoice's invoiceTheme when useCustomTheme is set, the UI theme
\* otherwise.
C30_SameEffectiveTheme ==
    /\ htmlTheme = invoiceTheme
    /\ invoiceTheme = IF preferences.useCustomTheme THEN preferences.invoiceTheme
                                                   ELSE settings.uiTheme

----------------------------------------------------------------------------
(* The invoice library: folders, the folder filter, drag and drop, and the clock
   that stamps the records. *)

MaxFolders == 2     \* folder ids are 1..MaxFolders
MaxNow == 1         \* the clock reads 0..MaxNow

FolderIds == {folders[i] : i \in 1..Len(folders)}

FolderNames == { <<>>, <<" ">>, <<"a">> }

\* addFolder: nothing for a blank name, else a folder with a fresh id at the end
addFolder ==
    /\ nextFolderId <= MaxFolders
    /\ \E newFolderName \in FolderNames :
          IF Trim(newFolderName) = <<>>
          THEN UNCHANGED <<folders, nextFolderId>>
          ELSE /\ folders' = Append(folders, nextFolderId)
               /\ nextFolderId' = nextFolderId + 1
    /\ UNCHANGED <<invoices, activeInvoiceId, nextId, selectedFolderId, settings, now,
                   totalsVars, endpointVars, formVars, sliceVars, exportVars>>

\* mutant of unfiled: the invoices of the removed folder keep its id
unfiledNone(list, folderId) == list

\* current.invoices.map(..): the invoices of the folder get folderId null
unfiled(list, folderId) ==
    [i \in 1..Len(list) |->
        IF list[i].folderId = folderId THEN [list[i] EXCEPT !.folderId = null] ELSE list[i]]

\* removeFolder(folderToDelete.id), from the confirmation dialog of a listed folder
removeFolder ==
    /\ \E folderId \in FolderIds :
          /\ folders' = SelectSeq(folders, LAMBDA id : id # folderId)
          /\ invoices' = unfiled(invoices, folderId)
          /\ selectedFolderId' = IF selectedFolderId = Folder(folderId)
                                 THEN AllFolders ELSE selectedFolderId
    /\ UNCHANGED <<activeInvoiceId, nextId, nextFolderId, settings, now,
                   totalsVars, endpointVars, formVars, sliceVars, exportVars>>

\* the filter buttons: "All", "Unfiled" and one per listed folder
selectFolder ==
    /\ \E selected \in {AllFolders, Unfiled} \cup {Folder(id) : id \in FolderIds} :
          selectedFolderId' = selected
    /\ UNCHANGED <<invoices, activeInvoiceId, nextId, folders, nextFolderId, settings, now,
                   totalsVars, endpointVars, formVars, sliceVars, exportVars>>

\* handleDrop(folderId): an invoice row dragged onto "All" / "Unfiled" (null) or a folder
handleDrop ==
    /\ \E folderId \in {null} \cup FolderIds, invoiceId \in ListedIds :
          invoices' = [i \in 1..Len(invoices) |->
                          IF invoices[i].id = invoiceId
                          THEN [invoices[i] EXCEPT !.folderId = folderId]
                          ELSE invoices[i]]
    /\ UNCHANGED <<activeInvoiceId, nextId, folders, nextFolderId, selectedFolderId,
                   settings, now, totalsVars, endpointVars, formVars, sliceVars, exportVars>>

\* time passes
Tick ==
    /\ now < MaxNow
    /\ now' = now + 1
    /\ UNCHANGED <<invoices, activeInvoiceId, nextId, folders, nextFolderId, selectedFolderId,
                   settings, totalsVars, endpointVars, formVars, sliceVars, exportVars>>

InitStore == Init

\* the invoice list's operations, with folders being added, the UI theme toggled and
\* time passing
NextStore ==
    \/ updateInvoice
    \/ setActiveInvoice
    \/ addInvoice
    \/ deleteInvoice
    \/ addFolder
    \/ ToggleUiTheme
    \/ Tick

SpecStore == InitStore /\ [][NextStore]_vars

\* C22: updateInvoice replaces only the record of the active invoice, with the next
\* revision of its data and updatedAt set to the current time; every other invoice,
\* the folders, the settings and activeInvoiceId stay as they were.
C22_UpdateFrame ==
    [][updateInvoice =>
          /\ Len(invoices') = Len(invoices)
          /\ \A i \in 1..Len(invoices) :
                IF invoices[i].id = activeInvoiceId
                THEN invoices'[i] = [id |-> invoices[i].id, rev |-> invoices[i].rev + 1,
                                     folderId |-> invoices[i].folderId, updatedAt |-> now]
                ELSE invoices'[i] = invoices[i]
          /\ UNCHANGED <<activeInvoiceId, folders, settings>>]_vars

\* an invoice updated after the clock moved, next to an older one that was not
\* touched, with a folder present and the UI theme toggled
C22_UpdatedAmongOthers ==
    /\ folders # <<>>
    /\ settings.uiTheme = "dark"
    /\ \E i, j \in 1..Len(invoices) :
          /\ invoices[i].id = activeInvoiceId
          /\ invoices[i].rev = 1
          /\ invoices[i].updatedAt = now
          /\ invoices[j].rev = 0
          /\ invoices[j].updatedAt < now

\* C25: after any addInvoice, deleteInvoice, updateInvoice or setActiveInvoice of a
\* listed id the list is not empty and activeInvoiceId is the id of a listed invoice.
C25_ActiveListed ==
    /\ invoices # <<>>
    /\ activeInvoiceId \in ListedIds

\* more ids were issued than are listed (an invoice was deleted) and the only
\* invoice left is the newest
C25_AfterDelete ==
    /\ Len(invoices) = 1
    /\ nextId > 2
    /\ invoices[1].id = nextId - 1
    /\ activeInvoiceId = invoices[1].id

\* C26: deleteInvoice of an invoice other than the active one leaves activeInvoiceId
\* as it was and removes at most that one invoice.
C26_DeleteKeepsActive ==
    [][(deleteInvoice /\ activeInvoiceId \in {invoices'[i].id : i \in 1..Len(invoices')}) =>
          /\ activeInvoiceId' = activeInvoiceId
          /\ Len(invoices') >= Len(invoices) - 1]_vars

InitLibrary == Init

\* the folder panel: folders added, removed and selected, invoices dropped, created
\* and deleted
NextLibrary ==
    \/ setActiveInvoice
    \/ addInvoice
    \/ deleteInvoice
    \/ addFolder
    \/ removeFolder
    \/ selectFolder
    \/ handleDrop

SpecLibrary == InitLibrary /\ [][NextLibrary]_vars

\* C27: after addFolder, removeFolder, a drop, addInvoice and deleteInvoice every
\* invoice's folderId is null or the id of an existing folder; removeFolder deletes no
\* invoice and changes only the folderId of the removed folder's invoices, to null.
C27_FolderIdsValid ==
    /\ [](\A i \in 1..Len(invoices) :
            invoices[i].folderId = null \/ invoices[i].folderId \in FolderIds)
    /\ [][removeFolder =>
             /\ Len(invoices') = Len(invoices)
             /\ \A i \in 1..Len(invoices) :
                   invoices'[i] = [invoices[i] EXCEPT !.folderId =
                                      IF @ \in {folders'[k] : k \in 1..Len(folders')}
                                      THEN @ ELSE null]]_vars

\* a folder was removed, an invoice is filed in the folder that is left and another
\* invoice is unfiled
C27_AfterRemoveFolder ==
    /\ nextFolderId = 3
    /\ Len(folders) = 1
    /\ \E i, j \in 1..Len(invoices) :
          /\ invoices[i].folderId = folders[1]
          /\ invoices[j].folderId = null

----------------------------------------------------------------------------
(* Markup of the generated document.  A text is a sequence of characters; what
   the template emits for a value is a sequence of tokens, a token being a
   character or an entity / tag written by escapeHtml and nl2br.  The values
   followed are those typed into free-text inputs: sender name, notes, the tax
   and discount values and the custom background color. *)

\* text with markup characters, as it can be typed or pasted into a text input
MarkupInputs == { <<"a">>, <<"<", "b", ">">>, <<"a", "&", "\n">> }

\* one character of escapeHtml: div.innerHTML (with a document) escapes & < >, the
\* server-side fallback also the two quotes
escapeChar(c, hasDocument) ==
    CASE c = "&" -> "&amp;"
      [] c = "<" -> "&lt;"
      [] c = ">" -> "&gt;"
      [] c = "\"" /\ ~hasDocument -> "&quot;"
      [] c = "'" /\ ~hasDocument -> "&#039;"
      [] OTHER -> c

escapeHtml(text, hasDocument) ==
    [i \in 1..Len(text) |-> escapeChar(text[i], hasDocument)]

\* escapeHtml(text).replace(/\n/g, "<br>")
nl2br(text, hasDocument) ==
    [i \in 1..Len(text) |->
        IF text[i] = "\n" THEN "<br>" ELSE escapeChar(text[i], hasDocument)]

\* a place of the document filled from the invoice: the invoice's value and the tokens
\* emitted for it
Fragment(key, value, text) == [key |-> key, value |-> value, text |-> text]

\* the interpolations of the rendered text fields: ${nl2br(invoice.notes)} for the
\* notes, ${escapeHtml(value)} for the others
fieldFragments(content, hasDocument) ==
    [i \in 1..Len(content) |->
        Fragment(content[i].key, content[i].value,
                 IF content[i].key = "notes" THEN nl2br(content[i].value, hasDocument)
                 ELSE escapeHtml(content[i].value, hasDocument))]

\* background-color: ${palette.background} in the style sheet, with custom colors the
\* invoice's own string
colorFragments ==
    IF activeStyle.useCustomColors
    THEN << Fragment("backgroundColor", activeStyle.backgroundColor, htmlPalette.background) >>
    ELSE <<>>

\* (${invoice.totals.taxValue}%) and (${invoice.totals.discountValue}%) next to the
\* labels of the tax and discount rows
feeFragments ==
    (IF invoice.totals.taxEnabled /\ invoice.totals.taxType = "percent"
     THEN << Fragment("taxValue", invoice.totals.taxValue, invoice.totals.taxValue) >>
     ELSE <<>>)
    \o (IF invoice.totals.discountEnabled /\ invoice.totals.discountType = "percent"
        THEN << Fragment("discountValue", invoice.totals.discountValue,
                         invoice.totals.discountValue) >>
        ELSE <<>>)

\* generateInvoiceHtml(invoice) of lib/invoice-html-template.ts: the interpolated values
htmlFragments(hasDocument) ==
    colorFragments
    \o fieldFragments(generateInvoiceHtml(fields, preferences.template).content, hasDocument)
    \o feeFragments

\* generateInvoiceHtml(invoice) of the grid-layout template: the interpolated values
gridHtmlFragments(hasDocument) ==
    colorFragments
    \o fieldFragments(generateInvoiceHtmlGrid(fields, preferences.template).content,
                      hasDocument)
    \o feeFragments

InitMarkup == InitTotals

\* the sender name and notes inputs, with text that holds markup characters
EnterField ==
    /\ \E key \in {"fromName", "notes"}, value \in MarkupInputs :
          fields' = [fields EXCEPT ![key] = value]
    /\ UNCHANGED <<labels, style, preferences, totalsVars, endpointVars, sliceVars, storeVars,
                   exportVars>>

\* the tax value input: a plain text input, its value is stored as typed
EnterTaxValue ==
    /\ \E value \in MarkupInputs : invoice' = [invoice EXCEPT !.totals.taxValue = value]
    /\ UNCHANGED <<formVars, sliceVars, storeVars, exportVars, endpointVars>>

\* the discount value input
EnterDiscountValue ==
    /\ \E value \in MarkupInputs : invoice' = [invoice EXCEPT !.totals.discountValue = value]
    /\ UNCHANGED <<formVars, sliceVars, storeVars, exportVars, endpointVars>>

\* the text input of the background ColorField, enabled only with custom colors
EnterBackgroundColor ==
    /\ activeStyle.useCustomColors
    /\ \E value \in MarkupInputs : style' = [style EXCEPT !.backgroundColor = value]
    /\ UNCHANGED <<labels, fields, preferences, totalsVars, endpointVars, sliceVars, storeVars,
                   exportVars>>

NextMarkup ==
    \/ EnterField
    \/ EnterTaxValue
    \/ EnterDiscountValue
    \/ EnterBackgroundColor
    \/ SetTaxEnabled
    \/ SetTaxType
    \/ SetDiscountEnabled
    \/ SetDiscountType
    \/ SetUseCustomColors

SpecMarkup == InitMarkup /\ [][NextMarkup]_vars

\* C29: every string of the invoice that generateInvoiceHtml places in the document is
\* emitted as escapeHtml (or nl2br, which escapes first) returns it, in both templates
\* and with or without a document to escape with.
C29_AllEscaped ==
    \A hasDocument \in BOOLEAN :
        \A emitted \in {htmlFragments(hasDocument), gridHtmlFragments(hasDocument)} :
            \A i \in 1..Len(emitted) :
                emitted[i].text \in {escapeHtml(emitted[i].value, hasDocument),
                                     nl2br(emitted[i].value, hasDocument)}

====
